---- MODULE Spec2Model ----
(***************************************************************************)
(* Model of the affine composition engine of RBniCS:                       *)
(*   - EIMDecoratedProblem_Class (rbnics/eim/problems/                     *)
(*     eim_decorated_problem.py): registration of separated forms and EIM  *)
(*     approximations, truncation table, offline operator pass and online  *)
(*     theta pass;                                                         *)
(*   - AffineExpansionStorage (rbnics/backends/online/numpy/               *)
(*     affine_expansion_storage.py): slots, component maps, save and load. *)
(* Python indices are 0-based; sequences here are 1-based, so form q and   *)
(* addend index of the code are q+1 and index+1 in the model.              *)
(***************************************************************************)
EXTENDS Integers, Sequences, FiniteSets, TLC

VARIABLES
    forms,               \* undecorated problem: term -> result of its assemble_operator
    stages,              \* problem -> self._apply_EIM_at_stages
    mu,                  \* problem -> self.mu
    mu_symbolic,         \* problem -> self.mu_symbolic
    separated_forms,     \* problem -> (term -> sequence of separated forms)
    EIM_approximations,  \* problem -> (factor -> EIMApproximation)
    N_EIM,               \* problem -> self._N_EIM
    previous_kwargs,     \* problem -> self._update_N_EIM__previous_kwargs
    ret,                 \* outcome of the last call
    storages,            \* storage id -> fields of the AffineExpansionStorage object
    arrays,              \* reference -> numpy object array (shape and slots)
    dicts,               \* reference -> dict of precomputed slices
    disk,                \* file name -> content of the file, for the files that exist
    items,               \* the operators the caller has computed and stores
    saved,               \* history: the storage as it was when save last succeeded
    readers,             \* reader thread -> its call, its position in it and its locals
    rectification        \* the reduced problem with online rectification, once constructed

eim_state == <<forms, stages, mu, mu_symbolic, separated_forms, EIM_approximations,
               N_EIM, previous_kwargs>>
eim_vars == <<eim_state, ret>>
aes_vars == <<storages, arrays, dicts, disk, items, saved, readers>>
rect_vars == <<rectification>>

vars == <<eim_vars, aes_vars, rect_vars>>

\* Python's None is the empty tuple and a value v that is not None is <<v>>
None == <<>>
Some(v) == <<v>>
NoError == "NoError"

(***************************************************************************)
(* Bounds of the model.                                                    *)
(***************************************************************************)
\* largest length an EIM basis is built to
MaxBasis == 3
\* largest truncation order handed to _solve through the EIM keyword
MaxN == 4
\* largest parameter value
MaxMu == 2

Factors == {"c1", "c2"}
Terms == <<"a", "f">>
TermSet == {Terms[i] : i \in 1..Len(Terms)}
\* terms a caller may ask for; "zz" is unknown to the problem
CallTerms == TermSet \cup {"zz"}

(***************************************************************************)
(* Generic helpers.                                                        *)
(***************************************************************************)
Front(s) == SubSeq(s, 1, Len(s) - 1)
Last(s) == s[Len(s)]

RECURSIVE Flatten(_)
Flatten(ss) == IF ss = <<>> THEN <<>> ELSE Head(ss) \o Flatten(Tail(ss))

RECURSIVE SeqProduct(_)
SeqProduct(s) == IF s = <<>> THEN 1 ELSE Head(s) * SeqProduct(Tail(s))

Ok(v) == [ok |-> TRUE, val |-> v, err |-> NoError]
Raise(e) == [ok |-> FALSE, val |-> <<>>, err |-> e]

\* the record of a call: the operation, the object it is called on, its
\* arguments and its outcome
NoCall == [op |-> "none", p |-> 0, arg |-> <<>>, res |-> Ok(<<>>)]
Call(op, p, arg, res) == [op |-> op, p |-> p, arg |-> arg, res |-> res]

(***************************************************************************)
(* The undecorated problem (ParametrizedDifferentialProblem_DerivedClass). *)
(* A form, once separated, carries its addends with parametrized factors   *)
(* (coefficients: a sequence of addends, each a sequence of factors) and   *)
(* the number of its addends without parametrized factor (unchanged).      *)
(***************************************************************************)
Form(coefficients, unchanged) == [coefficients |-> coefficients, unchanged |-> unchanged]
FormPool == {Form(<<<<"c1">>>>, 0), Form(<<<<"c2", "c1">>>>, 2),
             Form(<<<<"c1">>, <<"c2", "c1">>>>, 0)}
QPool == {1, 2}
\* what assemble_operator of the undecorated problem does for a term: it raises
\* ValueError, or returns the forms of the term
Raises == [raises |-> TRUE, forms |-> <<>>]
Returns(fs) == [raises |-> FALSE, forms |-> fs]
FormsPoolA == {Returns(fs) : fs \in UNION {[1..Q -> FormPool] : Q \in QPool}}
FormsPoolF == {Raises, Returns(<<Form(<<<<"c2">>>>, 1)>>)}

\* ParametrizedDifferentialProblem_DerivedClass.assemble_operator(self, term)
ParentAssembleOperator(term) ==
    IF term \in DOMAIN forms /\ ~forms[term].raises
    THEN Ok(forms[term].forms)
    ELSE Raise("ValueError")

\* scalar multiplier of form q of a term at parameter m
OriginalTheta(term, q, m) == (IF term = "a" THEN 2 ELSE 3) * q + m

\* ParametrizedDifferentialProblem_DerivedClass.compute_theta(self, term)
ParentComputeTheta(p, term) ==
    IF term \in DOMAIN forms /\ ~forms[term].raises
    THEN Ok([q \in 1..Len(forms[term].forms) |-> OriginalTheta(term, q, mu[p])])
    ELSE Raise("ValueError")

(***************************************************************************)
(* EIMApproximation, as far as the composition uses it.                    *)
(***************************************************************************)
\* EIMApproximationType(self, factory_factor, self.name() + "/eim/" + factor_name, ...)
NewEIMApproximation(p, term, q, index, k) ==
    [problem |-> p, name |-> <<p, term, q, index, k>>, N |-> 0]

\* EIM_approximations[factor].basis_functions
basis_functions(p, factor) ==
    [i \in 1..EIM_approximations[p][factor].N |-> <<factor, i>>]

FactorNumber(factor) == IF factor = "c1" THEN 1 ELSE 2

\* EIM_approximations[factor].compute_interpolated_theta(N): the N interpolation
\* coefficients at the current parameter, the full order when N is None
compute_interpolated_theta(p, factor, N) ==
    LET built == EIM_approximations[p][factor].N
        order == IF N = None THEN built ELSE N[1]
    IN  IF order > built
        THEN Raise("OutOfRange")
        ELSE Ok([i \in 1..order |->
                   [factor |-> factor, i |-> i,
                    value |-> 5 * FactorNumber(factor) + 2 * i + order + mu[p]]])

(***************************************************************************)
(* itertools.product: the rightmost pool advances fastest.                 *)
(***************************************************************************)
AppendEach(x, pool) == [j \in 1..Len(pool) |-> Append(x, pool[j])]

RECURSIVE ExtendResult(_, _)
ExtendResult(result, pool) ==
    IF result = <<>> THEN <<>>
    ELSE AppendEach(Head(result), pool) \o ExtendResult(Tail(result), pool)

\* faulty variant of cartesian_product: the leftmost pool advances fastest
RECURSIVE cartesian_product_leftmost_fastest(_)
cartesian_product_leftmost_fastest(pools) ==
    IF pools = <<>> THEN << <<>> >>
    ELSE LET rest == cartesian_product_leftmost_fastest(Tail(pools))
         IN  Flatten([n \in 1..Len(rest) |->
                        [j \in 1..Len(Head(pools)) |-> <<Head(pools)[j]>> \o rest[n]]])

RECURSIVE cartesian_product(_)
cartesian_product(pools) ==
    IF pools = <<>> THEN << <<>> >>
    ELSE ExtendResult(cartesian_product(Front(pools)), Last(pools))

(***************************************************************************)
(* _store_EIM_stages (lines 62-75): the decorator's stages argument is a   *)
(* string or a tuple of strings.                                           *)
(***************************************************************************)
StrStages(stage) == [isstr |-> TRUE, str |-> stage, tuple |-> <<>>]
TupleStages(t) == [isstr |-> FALSE, str |-> "", tuple |-> t]
StageNames == {"offline", "online"}

store_EIM_stages(arg) ==
    IF arg.isstr
    THEN IF arg.str = "offline" \/ arg.str # "online"
         THEN Raise("AssertionError")
         ELSE Ok(<<arg.str>>)
    ELSE IF Len(arg.tuple) \notin {1, 2} THEN Raise("AssertionError")
         ELSE IF arg.tuple[1] \notin StageNames THEN Raise("AssertionError")
         ELSE IF Len(arg.tuple) > 1
                 /\ (arg.tuple[2] \notin StageNames \/ arg.tuple[1] = arg.tuple[2])
              THEN Raise("AssertionError")
         ELSE Ok(arg.tuple)

(***************************************************************************)
(* _init_EIM_approximations (lines 77-121).                                *)
(***************************************************************************)
\* the terms of self.terms whose forms the undecorated problem assembles (the
\* others raise ValueError, which the loop passes over), in loop order
AssembledTerms == SelectSeq(Terms, LAMBDA t : ParentAssembleOperator(t).ok)

\* the (term, q, addend_index, k, factor) visited by the loops of lines 99-112, in order
AddendOccurrences(term, q, index, addend) ==
    [k \in 1..Len(addend) |-> <<term, q, index, k, addend[k]>>]
FormOccurrences(term, q, form) ==
    Flatten([index \in 1..Len(form.coefficients) |->
               AddendOccurrences(term, q, index, form.coefficients[index])])
TermOccurrences(term) ==
    Flatten([q \in 1..Len(forms[term].forms) |->
               FormOccurrences(term, q, forms[term].forms[q])])
Occurrences ==
    Flatten([n \in 1..Len(AssembledTerms) |-> TermOccurrences(AssembledTerms[n])])

\* faulty variant of RegisterFactor: the test of line 113 is missing
RegisterFactor_every_occurrence(p, eim, occ) ==
    (occ[5] :> NewEIMApproximation(p, occ[1], occ[2], occ[3], occ[4])) @@ eim

\* lines 113-119: a factor gets an approximation when it is not yet a key
RegisterFactor(p, eim, occ) ==
    IF occ[5] \notin DOMAIN eim
    THEN eim @@ (occ[5] :> NewEIMApproximation(p, occ[1], occ[2], occ[3], occ[4]))
    ELSE eim

RECURSIVE RegisterFactors(_, _, _)
RegisterFactors(p, eim, occs) ==
    IF occs = <<>> THEN eim
    ELSE RegisterFactors(p, RegisterFactor(p, eim, Head(occs)), Tail(occs))

\* lines 105-109: separated_forms[term][q] for every assembled term
SeparateForms ==
    [t \in {AssembledTerms[n] : n \in 1..Len(AssembledTerms)} |-> forms[t].forms]

(***************************************************************************)
(* _update_N_EIM (lines 127-145).                                          *)
(***************************************************************************)
\* the keys of separated_forms in iteration (insertion) order
RegisteredTerms(p) == SelectSeq(Terms, LAMBDA t : t \in DOMAIN separated_forms[p])

NoKwargs == [EIM |-> None]
UniformKwargs(n) == [EIM |-> Some([isdict |-> FALSE, n |-> n, d |-> <<>>])]
DictKwargs(d) == [EIM |-> Some([isdict |-> TRUE, n |-> 0, d |-> d])]

\* faulty variant of FillNEIM: the assertion of line 136 is missing
RECURSIVE FillNEIM_no_length_assertion(_, _, _, _)
FillNEIM_no_length_assertion(p, arg, table, terms) ==
    IF terms = <<>> THEN [table |-> table, ok |-> TRUE]
    ELSE LET term == Head(terms)
             Q == Len(separated_forms[p][term])
         IN  IF arg.isdict
             THEN IF term \notin DOMAIN arg.d
                  THEN [table |-> (term :> <<>>) @@ table, ok |-> FALSE]
                  ELSE FillNEIM_no_length_assertion(
                           p, arg, (term :> arg.d[term]) @@ table, Tail(terms))
             ELSE FillNEIM_no_length_assertion(
                      p, arg, (term :> [q \in 1..Q |-> arg.n]) @@ table, Tail(terms))

\* lines 132-142 over the remaining terms: the table built so far, and whether an
\* assertion stopped the loop
RECURSIVE FillNEIM(_, _, _, _)
FillNEIM(p, arg, table, terms) ==
    IF terms = <<>> THEN [table |-> table, ok |-> TRUE]
    ELSE LET term == Head(terms)
             Q == Len(separated_forms[p][term])
             started == (term :> <<>>) @@ table
         IN  IF arg.isdict
             THEN IF term \notin DOMAIN arg.d \/ Len(arg.d[term]) # Q
                  THEN [table |-> started, ok |-> FALSE]
                  ELSE FillNEIM(p, arg, (term :> arg.d[term]) @@ table, Tail(terms))
             ELSE FillNEIM(p, arg, (term :> [q \in 1..Q |-> arg.n]) @@ table, Tail(terms))

\* the state _update_N_EIM leaves: _N_EIM, _update_N_EIM__previous_kwargs, and
\* whether it returned (ok) or stopped at an assertion
update_N_EIM(p, kwargs) ==
    IF Some(kwargs) = previous_kwargs[p]
    THEN [N_EIM |-> N_EIM[p], previous |-> previous_kwargs[p], ok |-> TRUE]
    ELSE IF kwargs.EIM # None
         THEN LET filled == FillNEIM(p, kwargs.EIM[1], <<>>, RegisteredTerms(p))
              IN  [N_EIM |-> Some(filled.table),
                   previous |-> IF filled.ok THEN Some(kwargs) ELSE previous_kwargs[p],
                   ok |-> filled.ok]
         ELSE [N_EIM |-> None, previous |-> Some(kwargs), ok |-> TRUE]

(***************************************************************************)
(* _assemble_operator_EIM (lines 156-172).                                 *)
(***************************************************************************)
\* form.replace_placeholders(index, new_coeffs) of form q
replace_placeholders(q, index, new_coeffs) ==
    [kind |-> "eim", q |-> q, index |-> index, coeffs |-> new_coeffs]

\* the j-th entry of form.unchanged_forms of form q
unchanged_form(q, j) ==
    [kind |-> "unchanged", q |-> q, index |-> j, coeffs |-> <<>>]

\* lines 161-168 for one addend
AssembleAddend(p, q, index, addend) ==
    LET replacements__list == [k \in 1..Len(addend) |-> basis_functions(p, addend[k])]
        replacements__cartesian_product == cartesian_product(replacements__list)
    IN  [n \in 1..Len(replacements__cartesian_product) |->
           replace_placeholders(q, index, replacements__cartesian_product[n])]

\* faulty variant of AssembleForm: the unchanged forms are appended first
AssembleForm_unchanged_first(p, q, form) ==
    [j \in 1..form.unchanged |-> unchanged_form(q, j)]
    \o Flatten([index \in 1..Len(form.coefficients) |->
                  AssembleAddend(p, q, index, form.coefficients[index])])

\* lines 160-171 for one form
AssembleForm(p, q, form) ==
    Flatten([index \in 1..Len(form.coefficients) |->
               AssembleAddend(p, q, index, form.coefficients[index])])
    \o [j \in 1..form.unchanged |-> unchanged_form(q, j)]

assemble_operator_EIM(p, term) ==
    Ok(Flatten([q \in 1..Len(separated_forms[p][term]) |->
                  AssembleForm(p, q, separated_forms[p][term][q])]))

(***************************************************************************)
(* _compute_theta_EIM (lines 183-208).                                     *)
(***************************************************************************)
\* faulty variant of TruncationOrder: _N_EIM is never read
TruncationOrder_never_read(p, term, q) == None

\* lines 195-197: the order asked of the approximations of form q
TruncationOrder(p, term, q) ==
    IF N_EIM[p] # None THEN Some(N_EIM[p][1][term][q]) ELSE None

\* faulty variant of MultiplyAll: the loop stops after the first factor
MultiplyAll_first_factor_only(eim_thetas_tuple, tuple_) ==
    IF tuple_ = <<>> THEN eim_thetas_tuple
    ELSE eim_thetas_tuple * Head(tuple_).value

\* lines 201-203
RECURSIVE MultiplyAll(_, _)
MultiplyAll(eim_thetas_tuple, tuple_) ==
    IF tuple_ = <<>> THEN eim_thetas_tuple
    ELSE MultiplyAll(eim_thetas_tuple * Head(tuple_).value, Tail(tuple_))

\* lines 193-204 for one addend whose interpolated thetas could all be computed
ThetaAddend(p, term, q, index, addend, original_theta) ==
    LET eim_thetas__list ==
            [k \in 1..Len(addend) |->
               compute_interpolated_theta(p, addend[k], TruncationOrder(p, term, q)).val]
        eim_thetas__cartesian_product == cartesian_product(eim_thetas__list)
    IN  [n \in 1..Len(eim_thetas__cartesian_product) |->
           LET tuple_ == eim_thetas__cartesian_product[n]
           IN  [kind |-> "eim", q |-> q, index |-> index,
                coeffs |-> [k \in 1..Len(tuple_) |-> <<tuple_[k].factor, tuple_[k].i>>],
                value |-> MultiplyAll(original_theta, tuple_)]]

\* lines 192-207 for one form
ThetaForm(p, term, q, form, original_theta) ==
    Flatten([index \in 1..Len(form.coefficients) |->
               ThetaAddend(p, term, q, index, form.coefficients[index], original_theta)])
    \o [j \in 1..form.unchanged |->
          [kind |-> "unchanged", q |-> q, index |-> j, coeffs |-> <<>>,
           value |-> original_theta]]

\* some compute_interpolated_theta call of line 198 fails
InterpolationFails(p, term) ==
    \E q \in 1..Len(separated_forms[p][term]) :
        \E index \in 1..Len(separated_forms[p][term][q].coefficients) :
            \E k \in 1..Len(separated_forms[p][term][q].coefficients[index]) :
                ~compute_interpolated_theta(
                    p, separated_forms[p][term][q].coefficients[index][k],
                    TruncationOrder(p, term, q)).ok

compute_theta_EIM(p, term) ==
    LET original_thetas == ParentComputeTheta(p, term)
        sep == separated_forms[p][term]
    IN  IF ~original_thetas.ok THEN original_thetas
        ELSE IF Len(sep) # Len(original_thetas.val) THEN Raise("AssertionError")
        ELSE IF N_EIM[p] # None /\ term \notin DOMAIN N_EIM[p][1]
             THEN Raise("AssertionError")
        ELSE IF N_EIM[p] # None /\ Len(sep) # Len(N_EIM[p][1][term])
             THEN Raise("AssertionError")
        ELSE IF InterpolationFails(p, term) THEN Raise("OutOfRange")
        ELSE Ok(Flatten([q \in 1..Len(sep) |->
                           ThetaForm(p, term, q, sep[q], original_thetas.val[q])]))

(***************************************************************************)
(* assemble_operator (lines 147-154) and compute_theta (lines 174-181).    *)
(***************************************************************************)
\* "offline" in self._apply_EIM_at_stages
InStages(stage, p) == \E i \in 1..Len(stages[p]) : stages[p][i] = stage

\* faulty variant of assemble_operator: the error of the undecorated problem is
\* swallowed
assemble_operator_swallows_error(p, term) ==
    IF term \in DOMAIN separated_forms[p] /\ InStages("offline", p)
    THEN assemble_operator_EIM(p, term)
    ELSE IF ParentAssembleOperator(term).ok THEN ParentAssembleOperator(term)
         ELSE Ok(<<>>)

assemble_operator(p, term) ==
    IF term \in DOMAIN separated_forms[p]
    THEN IF InStages("offline", p)
         THEN assemble_operator_EIM(p, term)
         ELSE ParentAssembleOperator(term)
    ELSE ParentAssembleOperator(term)

compute_theta(p, term) ==
    IF term \in DOMAIN separated_forms[p]
    THEN IF InStages("offline", p)
         THEN compute_theta_EIM(p, term)
         ELSE ParentComputeTheta(p, term)
    ELSE ParentComputeTheta(p, term)

(***************************************************************************)
(* Calls on a problem.                                                     *)
(***************************************************************************)

\* the arguments of _solve: no EIM keyword, one order for all, or a mapping that
\* gives every term one or two orders
DictPool == {("a" :> <<MaxBasis - 1>>) @@ ("f" :> <<MaxN>>),
             ("a" :> <<MaxBasis, MaxBasis - 1>>) @@ ("f" :> <<MaxBasis - 1>>),
             ("a" :> <<MaxBasis - 1>>)}
KwargsPool == {NoKwargs} \cup {UniformKwargs(n) : n \in 2..MaxN}
              \cup {DictKwargs(d) : d \in DictPool}

\* no storage has been constructed and nothing has been saved
NoStorage ==
    /\ storages = <<>>
    /\ arrays = <<>>
    /\ dicts = <<>>
    /\ disk = <<>>
    /\ items = {}
    /\ saved = None
    /\ readers = <<>>

\* __init__ (lines 46-60) of every problem of the set P, for an undecorated problem
\* of the given pools and a decorator argument of StageArgs
InitProblems(P, poolA, poolF, StageArgs) ==
    /\ forms \in {("a" :> fa) @@ ("f" :> ff) : fa \in poolA, ff \in poolF}
    /\ stages \in [P -> {store_EIM_stages(arg).val :
                          arg \in {x \in StageArgs : store_EIM_stages(x).ok}}]
    /\ mu = [p \in P |-> 1]
    /\ mu_symbolic = [p \in P |-> FALSE]
    /\ separated_forms = [p \in P |-> <<>>]
    /\ EIM_approximations = [p \in P |-> <<>>]
    /\ N_EIM = [p \in P |-> None]
    /\ previous_kwargs = [p \in P |-> None]
    /\ ret = NoCall
    /\ rectification = None

\* self.mu while it is self.mu_symbolic (line 97): no float value
SymbolicMu == 0

\* faulty variant of RestoreMu: line 121 is missing
RestoreMu_skipped(m, p, mu_float) == m

\* line 121: self.mu = mu_float
RestoreMu(m, p, mu_float) == [m EXCEPT ![p] = mu_float]

\* _init_EIM_approximations (lines 77-121)
InitEIMApproximations(p) ==
    IF (separated_forms[p] = <<>>) # (EIM_approximations[p] = <<>>)
    THEN /\ ret' = Call("init", p, <<>>, Raise("AssertionError"))
         /\ UNCHANGED <<aes_vars, rect_vars, forms, stages, mu, mu_symbolic, separated_forms,
                        EIM_approximations, N_EIM, previous_kwargs>>
    ELSE IF EIM_approximations[p] = <<>>
    THEN LET mu_float == mu[p]
         IN  /\ mu_symbolic' = [mu_symbolic EXCEPT ![p] = TRUE]
             /\ separated_forms' = [separated_forms EXCEPT ![p] = SeparateForms]
             /\ EIM_approximations' =
                    [EIM_approximations EXCEPT ![p] = RegisterFactors(p, <<>>, Occurrences)]
             /\ mu' = RestoreMu([mu EXCEPT ![p] = SymbolicMu], p, mu_float)
             /\ ret' = Call("init", p, <<>>, Ok(<<>>))
             /\ UNCHANGED <<aes_vars, rect_vars, forms, stages, N_EIM, previous_kwargs>>
    ELSE /\ ret' = Call("init", p, <<>>, Ok(<<>>))
         /\ UNCHANGED <<aes_vars, rect_vars, forms, stages, mu, mu_symbolic, separated_forms,
                        EIM_approximations, N_EIM, previous_kwargs>>

\* the offline stage of the EIM reduction method appends one basis function (and one
\* magic index) to the approximation of a factor
EIMOffline(p, factor) ==
    /\ factor \in DOMAIN EIM_approximations[p]
    /\ EIM_approximations[p][factor].N < MaxBasis
    /\ EIM_approximations' =
           [EIM_approximations EXCEPT ![p][factor].N = EIM_approximations[p][factor].N + 1]
    /\ ret' = NoCall
    /\ UNCHANGED <<aes_vars, rect_vars, forms, stages, mu, mu_symbolic, separated_forms, N_EIM,
                   previous_kwargs>>

\* set_mu
SetMu(p, m) ==
    /\ m # mu[p]
    /\ mu' = [mu EXCEPT ![p] = m]
    /\ ret' = NoCall
    /\ UNCHANGED <<aes_vars, rect_vars, forms, stages, mu_symbolic, separated_forms, EIM_approximations,
                   N_EIM, previous_kwargs>>

\* _solve (lines 123-125)
Solve(p, kwargs) ==
    LET updated == update_N_EIM(p, kwargs)
    IN  /\ N_EIM' = [N_EIM EXCEPT ![p] = updated.N_EIM]
        /\ previous_kwargs' = [previous_kwargs EXCEPT ![p] = updated.previous]
        /\ ret' = Call("solve", p, kwargs,
                       IF updated.ok THEN Ok(<<>>) ELSE Raise("AssertionError"))
        /\ UNCHANGED <<aes_vars, rect_vars, forms, stages, mu, mu_symbolic, separated_forms,
                       EIM_approximations>>

\* assemble_operator (lines 147-154)
AssembleOperator(p, term) ==
    /\ ret' = Call("assemble_operator", p, term, assemble_operator(p, term))
    /\ UNCHANGED <<aes_vars, rect_vars, forms, stages, mu, mu_symbolic, separated_forms,
                   EIM_approximations, N_EIM, previous_kwargs>>

\* compute_theta (lines 174-181)
ComputeTheta(p, term) ==
    /\ ret' = Call("compute_theta", p, term, compute_theta(p, term))
    /\ UNCHANGED <<aes_vars, rect_vars, forms, stages, mu, mu_symbolic, separated_forms,
                   EIM_approximations, N_EIM, previous_kwargs>>

\* __init__ (lines 46-60) of the problem p with the decorator argument arg: the
\* attributes are set, the last but one step stores the stages; when that raises no
\* problem comes to exist
ProblemInit(p, arg) ==
    /\ p \notin DOMAIN stages
    /\ LET stored == store_EIM_stages(arg)
       IN  IF stored.ok
           THEN /\ mu' = (p :> 1) @@ mu
                /\ mu_symbolic' = (p :> FALSE) @@ mu_symbolic
                /\ separated_forms' = (p :> <<>>) @@ separated_forms
                /\ EIM_approximations' = (p :> <<>>) @@ EIM_approximations
                /\ N_EIM' = (p :> None) @@ N_EIM
                /\ stages' = (p :> stored.val) @@ stages
                /\ previous_kwargs' = (p :> None) @@ previous_kwargs
                /\ ret' = Call("__init__", p, arg, Ok(<<>>))
                /\ UNCHANGED <<aes_vars, rect_vars, forms>>
           ELSE /\ ret' = Call("__init__", p, arg, stored)
                /\ UNCHANGED <<aes_vars, rect_vars, forms, stages, mu, mu_symbolic, separated_forms,
                               EIM_approximations, N_EIM, previous_kwargs>>

Problems == DOMAIN stages

\* one problem, decorated with the default stages
Init ==
    /\ InitProblems({1}, FormsPoolA, FormsPoolF, {TupleStages(<<"offline", "online">>)})
    /\ NoStorage
Next ==
    \/ \E p \in Problems : InitEIMApproximations(p)
    \/ \E p \in Problems, factor \in Factors : EIMOffline(p, factor)
    \/ \E p \in Problems, m \in 1..MaxMu : SetMu(p, m)
    \/ \E p \in Problems, kwargs \in KwargsPool : Solve(p, kwargs)
    \/ \E p \in Problems, term \in CallTerms : AssembleOperator(p, term)
    \/ \E p \in Problems, term \in CallTerms : ComputeTheta(p, term)
Spec == Init /\ [][Next]_vars

\* two problems over the same undecorated problem: registration and basis building
InitTwo ==
    /\ InitProblems({1, 2}, FormsPoolA, FormsPoolF, {TupleStages(<<"offline", "online">>)})
    /\ NoStorage
NextTwo ==
    \/ \E p \in Problems : InitEIMApproximations(p)
    \/ \E p \in Problems, factor \in Factors : EIMOffline(p, factor)
SpecTwo == InitTwo /\ [][NextTwo]_vars

\* the decorator arguments a caller may write: strings, and tuples of up to three
\* strings
StageStrings == {"offline", "online", "both"}
StageArgs ==
    {StrStages(stage) : stage \in StageStrings}
    \cup {TupleStages(t) : t \in UNION {[1..n -> StageStrings] : n \in 0..2}}
    \cup {TupleStages(<<"offline", "online", "offline">>)}
\* a term of one form with a parametrized factor, or of one form without any
StagesPoolA == {Returns(<<Form(<<<<"c1">>>>, 1)>>), Returns(<<Form(<<>>, 1)>>)}
SolveArgs == {NoKwargs, UniformKwargs(MaxBasis - 1)}

\* one problem, constructed with any decorator argument and then used
InitStages ==
    /\ InitProblems({}, StagesPoolA, FormsPoolF, StageArgs)
    /\ NoStorage
NextStages ==
    \/ \E arg \in StageArgs : ProblemInit(1, arg)
    \/ \E p \in Problems : InitEIMApproximations(p)
    \/ \E p \in Problems, factor \in Factors : EIMOffline(p, factor)
    \/ \E p \in Problems, kwargs \in SolveArgs : Solve(p, kwargs)
    \/ \E p \in Problems, term \in CallTerms : AssembleOperator(p, term)
    \/ \E p \in Problems, term \in CallTerms : ComputeTheta(p, term)
SpecStages == InitStages /\ [][NextStages]_vars

(***************************************************************************)
(* AffineExpansionStorage (numpy backend).                                 *)
(* The objects live in three heaps: storages (id -> fields of the object), *)
(* arrays (reference -> numpy object array) and dicts (reference -> dict   *)
(* of precomputed slices), so that rebinding self._content or              *)
(* self._precomputed_slices to a new object differs from writing into an   *)
(* object that is shared.  An array keeps its slots in row-major order,    *)
(* the order in which nditer visits them.                                  *)
(***************************************************************************)
\* number of rows, of columns and of entries of the stored operators
ItemSize == 2
\* the stored matrices have numeric values 1..MaxVal
MaxVal == 2

IndexToName == "_basis_component_index_to_component_name"
NameToIndex == "_component_name_to_basis_component_index"
NameToLength == "_component_name_to_basis_component_length"
MapNames == <<IndexToName, NameToIndex, NameToLength>>
MapNameSet == {MapNames[i] : i \in 1..Len(MapNames)}

\* the three dicts that describe the components c of a block-structured unknown
ComponentMaps(c) == [name \in MapNameSet |-> <<name, c>>]
NoComponents == <<>>
NoMaps == [name \in MapNameSet |-> None]

\* the items a caller stores: attrs are the attributes hasattr finds on the item
\* (for a function, on its vector()).  The value of a size attribute, and the size
\* that save writes, is a tuple of ints: <<n>> for the int n, <<m, n>> for the pair
\* (m, n), None for None
OnlineMatrix(val, components) ==
    [kind |-> "matrix", val |-> val, shape |-> <<ItemSize, ItemSize>>,
     attrs |-> ("M" :> <<ItemSize>>) @@ ("N" :> <<ItemSize>>) @@ components]
OnlineVector(val, components) ==
    [kind |-> "vector", val |-> val, shape |-> <<ItemSize>>,
     attrs |-> ("N" :> <<ItemSize>>) @@ components]
OnlineFunction(val, components) ==
    [kind |-> "function", val |-> val, shape |-> <<ItemSize>>,
     attrs |-> ("N" :> <<ItemSize>>) @@ components]
Float(val) == [kind |-> "float", val |-> val, shape |-> <<>>, attrs |-> NoComponents]
FunctionsList(val) ==
    [kind |-> "functions_list", val |-> val, shape |-> <<>>, attrs |-> NoComponents]
\* an object of none of the types __setitem__ accepts, such as an int
IntItem(val) == [kind |-> "int", val |-> val, shape |-> <<>>, attrs |-> NoComponents]

StoredKinds == {"matrix", "vector", "function", "float", "functions_list",
                "basis_functions_matrix"}
SavedKinds == {"matrix", "vector", "function", "float"}

HasAttr(item, name) == name \in DOMAIN item.attrs
\* item.vector() of a function, the item itself otherwise
vector(item) == IF item.kind = "function" THEN [item EXCEPT !.kind = "vector"] ELSE item
\* tuple(range(n))
Range(n) == [i \in 1..n |-> i - 1]

\* numpy.empty(shape, dtype=object)
Size(shape) == SeqProduct(shape)
EmptyContent(shape) == [shape |-> shape, data |-> [i \in 1..Size(shape) |-> None]]
KeysOf(shape) ==
    IF Len(shape) = 1
    THEN {<<i>> : i \in 0..(shape[1] - 1)}
    ELSE {<<i, j>> : i \in 0..(shape[1] - 1), j \in 0..(shape[2] - 1)}
Offset(shape, key) ==
    IF Len(shape) = 1 THEN key[1] + 1 ELSE key[1] * shape[2] + key[2] + 1

\* references: a new object takes the least reference no live object answers to,
\* and an object nothing refers to any more is dropped
Min(S) == CHOOSE x \in S : \A y \in S : x <= y
FreshRef(used) == Min((1..(Cardinality(used) + 1)) \ used)
MatrixRefs(S) ==
    {S[s].content_as_matrix[1] : s \in {t \in DOMAIN S : S[t].content_as_matrix # None}}
ArrayRefs(S) == {S[s].content : s \in DOMAIN S} \cup MatrixRefs(S)
DictRefs(S) == {S[s].precomputed_slices : s \in DOMAIN S}
\* the names the caller binds storages to; a sliced storage has no name and lives
\* as long as a dict of precomputed slices of a live storage holds it
Names == {1, 2}
RECURSIVE Reachable(_, _, _)
Reachable(live, S, D) ==
    LET held == UNION {{D[S[s].precomputed_slices][k] :
                           k \in DOMAIN D[S[s].precomputed_slices]} : s \in live}
    IN  IF held \subseteq live THEN live ELSE Reachable(live \cup held, S, D)
Collect(S, A, D) ==
    LET live == [s \in Reachable(DOMAIN S \cap Names, S, D) |-> S[s]]
    IN  [storages |-> live,
         arrays |-> [r \in ArrayRefs(live) |-> A[r]],
         dicts |-> [r \in DictRefs(live) |-> D[r]]]
Others(id) == [s \in DOMAIN storages \ {id} |-> storages[s]]

\* __init__ (lines 34-73) with an int, or with two ints
Shape(arg1, arg2) == IF arg2 = None THEN <<arg1>> ELSE <<arg1, arg2[1]>>
NewStorage(content, slices, arg1, arg2) ==
    [recursive |-> FALSE,
     content |-> content,
     content_as_matrix |-> None,
     precomputed_slices |-> slices,
     largest_key |-> IF arg2 = None THEN <<arg1 - 1>> ELSE <<arg1 - 1, arg2[1] - 1>>,
     maps |-> NoMaps]
AES_init(id, arg1, arg2) ==
    LET content == FreshRef(ArrayRefs(Others(id)))
        slices == FreshRef(DictRefs(Others(id)))
    IN  Collect((id :> NewStorage(content, slices, arg1, arg2)) @@ Others(id),
                (content :> EmptyContent(Shape(arg1, arg2))) @@ arrays,
                (slices :> <<>>) @@ dicts)

\* __init__ (lines 46-51, 70-73) with a storage: the view shares the three objects
\* of arg1 and starts with its own three maps, all None
AES_view(id, arg1) ==
    Collect((id :> [recursive |-> TRUE,
                    content |-> storages[arg1].content,
                    content_as_matrix |-> storages[arg1].content_as_matrix,
                    precomputed_slices |-> storages[arg1].precomputed_slices,
                    largest_key |-> None,
                    maps |-> NoMaps]) @@ Others(id),
            arrays, dicts)

\* the arguments a caller hands to __init__, by type: an int, None, a str, a
\* storage bound to a name, a tuple of items
IntArg(n) == [type |-> "int", int |-> n]
NoneArg == [type |-> "None"]
StrArg == [type |-> "str"]
StorageArg(name) == [type |-> "storage", name |-> name]
TupleArg(t) == [type |-> "tuple", items |-> t]

\* line 47 without the assertion
SecondIsNone_unchecked(arg2) == TRUE
\* assert arg2 is None (lines 47, 54)
SecondIsNone(arg2) == arg2.type = "None"

\* _prepare_trivial_precomputed_slice (lines 177-187): the new dict
TrivialSlices(id, slot) ==
    IF slot = None THEN <<>>
    ELSE IF slot[1].kind = "matrix"
    THEN <<Range(slot[1].shape[1]), Range(slot[1].shape[2])>> :> id
    ELSE IF slot[1].kind = "vector"
    THEN <<Range(slot[1].shape[1])>> :> id
    ELSE <<>>

\* the assertions of __setitem__ on the component maps (lines 270-287)
MapsAccepted(st, item) ==
    LET target == vector(item)
    IN  /\ HasAttr(target, IndexToName) = HasAttr(target, NameToIndex)
        /\ HasAttr(target, NameToIndex) = HasAttr(target, NameToLength)
        /\ IF HasAttr(target, NameToIndex)
           THEN /\ target.kind \in {"matrix", "vector", "basis_functions_matrix"}
                /\ (st.maps[IndexToName] = None) = (st.maps[NameToIndex] = None)
                /\ (st.maps[NameToIndex] = None) = (st.maps[NameToLength] = None)
                /\ st.maps[IndexToName] # None =>
                       \A name \in MapNameSet : st.maps[name] = Some(target.attrs[name])
           ELSE \A name \in MapNameSet : st.maps[name] = None
\* the component maps of the storage after an accepted item (lines 276-279)
MapsAfter(st, item) ==
    IF HasAttr(vector(item), NameToIndex) /\ st.maps[IndexToName] = None
    THEN [name \in MapNameSet |-> Some(vector(item).attrs[name])]
    ELSE st.maps

\* lines 75-77: self[i] = arg1i for every item of the tuple in turn, as far as
\* the component maps go: the maps after the items from i on, and whether every
\* one of them passed the assertions of __setitem__
RECURSIVE CopyItems(_, _, _)
CopyItems(maps, t, i) ==
    IF i > Len(t) THEN [maps |-> maps, ok |-> TRUE]
    ELSE IF ~MapsAccepted([maps |-> maps], t[i]) THEN [maps |-> maps, ok |-> FALSE]
    ELSE CopyItems(MapsAfter([maps |-> maps], t[i]), t, i + 1)

\* __init__ (lines 52-57, 70-77) with a tuple of matrices or vectors: a storage of
\* len(arg1) slots that holds the items
AES_tuple(id, t) ==
    LET content == FreshRef(ArrayRefs(Others(id)))
        slices == FreshRef(DictRefs(Others(id)))
        copied == CopyItems(NoMaps, t, 1)
        new == [NewStorage(content, slices, Len(t), None) EXCEPT !.maps = copied.maps]
    IN  Collect((id :> new) @@ Others(id),
                (content :> [shape |-> <<Len(t)>>,
                             data |-> [i \in 1..Len(t) |-> Some(t[i])]]) @@ arrays,
                (slices :> IF t = <<>> THEN <<>> ELSE TrivialSlices(id, Some(t[Len(t)])))
                    @@ dicts)

\* __init__ (lines 34-78), whatever the arguments: the storage is bound to the name
\* id when __init__ returns, and nothing is when it raises.  numpy.empty refuses a
\* negative size with ValueError
init(id, arg1, arg2) ==
    LET Fail(err) == [storages |-> storages, arrays |-> arrays, dicts |-> dicts,
                      res |-> Raise(err)]
        Done(world) == [storages |-> world.storages, arrays |-> world.arrays,
                        dicts |-> world.dicts, res |-> Ok(None)]
    IN  IF ~(arg1.type \in {"int", "tuple", "storage"} \/ arg2.type \in {"int", "None"})
        THEN Fail("AssertionError")
        ELSE IF arg1.type = "storage"
        THEN IF ~SecondIsNone(arg2) THEN Fail("AssertionError")
             ELSE Done(AES_view(id, arg1.name))
        ELSE IF arg1.type = "tuple"
        THEN IF \E i \in DOMAIN arg1.items : arg1.items[i].kind \notin {"matrix", "vector"}
             THEN Fail("AssertionError")
             ELSE IF ~SecondIsNone(arg2) THEN Fail("AssertionError")
             ELSE IF ~CopyItems(NoMaps, arg1.items, 1).ok THEN Fail("AssertionError")
             ELSE Done(AES_tuple(id, arg1.items))
        ELSE IF arg1.type = "int"
        THEN IF arg2.type = "None"
             THEN IF arg1.int < 0 THEN Fail("ValueError")
                  ELSE Done(AES_init(id, arg1.int, None))
             ELSE IF arg2.type # "int" THEN Fail("AssertionError")
             ELSE IF arg1.int < 0 \/ arg2.int < 0 THEN Fail("ValueError")
             ELSE Done(AES_init(id, arg1.int, Some(arg2.int)))
        ELSE Fail("AssertionError")

\* lines 81, 115 and 256 without the assertion
Owning_unchecked(st) == TRUE
\* assert not self._recursive (lines 81, 115, 256)
Owning(st) == ~st.recursive

\* line 289 without the assignment
ResetCopies_keeps(st) == st
\* self._content_as_matrix = None (line 289)
ResetCopies(st) == [st EXCEPT !.content_as_matrix = None]

\* __setitem__ (lines 255-292): the slot is written before the item is looked at
setitem(id, key, item) ==
    LET st == storages[id]
        content == arrays[st.content]
        written == [arrays EXCEPT
                       ![st.content].data[Offset(content.shape, key)] = Some(item)]
        last == key = st.largest_key
        slices == IF last THEN FreshRef(DictRefs(Others(id))) ELSE st.precomputed_slices
        updated == [ResetCopies(st) EXCEPT !.maps = MapsAfter(st, item),
                                           !.precomputed_slices = slices]
        world == Collect((id :> updated) @@ Others(id), written,
                         IF last
                         THEN (slices :> TrivialSlices(id, Some(vector(item)))) @@ dicts
                         ELSE dicts)
    IN  IF ~Owning(st)
        THEN [storages |-> storages, arrays |-> arrays, dicts |-> dicts,
              res |-> Raise("AssertionError")]
        ELSE IF item.kind \notin StoredKinds \/ ~MapsAccepted(st, item)
        THEN [storages |-> storages, arrays |-> written, dicts |-> dicts,
              res |-> Raise("AssertionError")]
        ELSE [storages |-> world.storages, arrays |-> world.arrays,
              dicts |-> world.dicts, res |-> Ok(None)]

\* NumpyIO.save_file and load_file of the content array: the numeric content of
\* every slot comes back, the attributes that were set on the objects do not
Pickle(content) ==
    [shape |-> content.shape,
     data |-> [i \in DOMAIN content.data |->
                  IF content.data[i] = None THEN None
                  ELSE Some([content.data[i][1] EXCEPT !.attrs = NoComponents])]]

MapFiles == <<"basis_component_index_to_component_name",
              "component_name_to_basis_component_index",
              "component_name_to_basis_component_length">>
SavedMaps(st) == [f \in {MapFiles[i] : i \in 1..Len(MapFiles)} |->
                     st.maps[MapNames[CHOOSE i \in 1..Len(MapFiles) : MapFiles[i] = f]]]

\* the type and size that save writes, taken from the first slot (lines 93-109);
\* sized tells whether the first slot has the size attributes that are read
ContentDescriptor(slot) ==
    IF slot = None THEN [content_type |-> "empty", sized |-> TRUE, content_size |-> None]
    ELSE IF slot[1].kind = "matrix"
    THEN IF HasAttr(slot[1], "M") /\ HasAttr(slot[1], "N")
         THEN [content_type |-> "matrix", sized |-> TRUE,
               content_size |-> slot[1].attrs["M"] \o slot[1].attrs["N"]]
         ELSE [content_type |-> "matrix", sized |-> FALSE, content_size |-> None]
    ELSE IF slot[1].kind \in {"vector", "function"}
    THEN IF HasAttr(slot[1], "N")
         THEN [content_type |-> slot[1].kind, sized |-> TRUE,
               content_size |-> slot[1].attrs["N"]]
         ELSE [content_type |-> slot[1].kind, sized |-> FALSE, content_size |-> None]
    ELSE [content_type |-> "scalar", sized |-> TRUE, content_size |-> None]

\* save (lines 80-111): the content and the maps are on disk before the first slot
\* is looked at, and the type before the size attributes are read
save(id) ==
    LET st == storages[id]
        content == arrays[st.content]
        written == ("content" :> Pickle(content)) @@ SavedMaps(st) @@ disk
        first == content.data[1]
        descriptor == ContentDescriptor(first)
    IN  IF ~Owning(st)
        THEN [disk |-> disk, saved |-> saved, res |-> Raise("AssertionError")]
        ELSE IF Size(content.shape) = 0
        THEN [disk |-> written, saved |-> None, res |-> Raise("ValueError")]
        ELSE IF first # None /\ first[1].kind \notin SavedKinds
        THEN [disk |-> written, saved |-> None, res |-> Raise("AssertionError")]
        ELSE IF ~descriptor.sized
        THEN [disk |-> ("content_type" :> descriptor.content_type) @@ written,
              saved |-> None, res |-> Raise("AttributeError")]
        ELSE [disk |-> ("content_type" :> descriptor.content_type)
                       @@ ("content_size" :> descriptor.content_size) @@ written,
              saved |-> Some([content |-> content, maps |-> st.maps]),
              res |-> Ok(None)]

\* setting attributes on every slot in turn (lines 136-143, 151-155, 158-161): None
\* and a float take no attribute, and the slots before the first of them keep theirs
Settable(slot) == slot # None /\ slot[1].kind # "float"
Stamp(data, attrs) ==
    LET bad == {i \in DOMAIN data : ~Settable(data[i])}
        stop == IF bad = {} THEN Len(data) + 1 ELSE Min(bad)
    IN  IF DOMAIN attrs = {}
        THEN [data |-> data, err |-> NoError]
        ELSE [data |-> [i \in DOMAIN data |->
                           IF i < stop
                           THEN Some([data[i][1] EXCEPT !.attrs = attrs @@ @])
                           ELSE data[i]],
              err |-> IF bad = {} THEN NoError ELSE "AttributeError"]

\* lines 149-165 without the assignment of M
StampSize_columns_only(data, content_type, content_size) ==
    IF content_type = "matrix"
    THEN IF Len(content_size) # 2
         THEN [data |-> data, err |-> "TypeError"]
         ELSE Stamp(data, "N" :> <<content_size[2]>>)
    ELSE IF content_type \in {"vector", "function"}
    THEN Stamp(data, "N" :> content_size)
    ELSE [data |-> data, err |-> NoError]
\* the size that load sets on every slot (lines 149-165); a size that is not a pair
\* does not unpack into (M, N)
StampSize(data, content_type, content_size) ==
    IF content_type = "matrix"
    THEN IF Len(content_size) # 2
         THEN [data |-> data, err |-> "TypeError"]
         ELSE Stamp(data, ("M" :> <<content_size[1]>>) @@ ("N" :> <<content_size[2]>>))
    ELSE IF content_type \in {"vector", "function"}
    THEN Stamp(data, "N" :> content_size)
    ELSE [data |-> data, err |-> NoError]

\* the three dicts, read in turn (lines 129-134)
RECURSIVE LoadMaps(_, _)
LoadMaps(maps, i) ==
    IF i > Len(MapFiles) THEN [maps |-> maps, ok |-> TRUE]
    ELSE IF MapFiles[i] \notin DOMAIN disk THEN [maps |-> maps, ok |-> FALSE]
    ELSE LoadMaps([maps EXCEPT ![MapNames[i]] = disk[MapFiles[i]]], i + 1)

\* lines 127-165: what load has read and set when it stops, and the error that
\* stopped it
Loaded(st) ==
    LET content == disk["content"]
        m == LoadMaps(st.maps, 1)
        attrs == [name \in {n \in MapNameSet : m.maps[n] # None} |-> m.maps[name][1]]
        with_maps == Stamp(content.data, attrs)
        with_size == StampSize(with_maps.data, disk["content_type"], disk["content_size"])
        Stop(data, err) ==
            [content |-> [content EXCEPT !.data = data], maps |-> m.maps, err |-> err]
    IN  IF ~m.ok THEN Stop(content.data, "AssertionError")
        ELSE IF Size(content.shape) = 0 THEN Stop(content.data, "ValueError")
        ELSE IF with_maps.err # NoError THEN Stop(with_maps.data, with_maps.err)
        ELSE IF "content_type" \notin DOMAIN disk \/ "content_size" \notin DOMAIN disk
        THEN Stop(with_maps.data, "AssertionError")
        ELSE IF with_size.err # NoError THEN Stop(with_size.data, with_size.err)
        ELSE Stop(with_size.data, NoError)

\* load (lines 114-175)
load(id) ==
    LET st == storages[id]
        Same(res) == [storages |-> storages, arrays |-> arrays, dicts |-> dicts,
                      res |-> res]
        loaded == Loaded(st)
        done == loaded.err = NoError
        kept == IF done \/ st.content_as_matrix = None THEN {}
                ELSE {st.content_as_matrix[1]}
        content == FreshRef(ArrayRefs(Others(id)) \cup kept)
        slices == IF done THEN FreshRef(DictRefs(Others(id))) ELSE st.precomputed_slices
        updated == [st EXCEPT
                       !.content = content,
                       !.maps = loaded.maps,
                       !.content_as_matrix = IF done THEN Some(content) ELSE @,
                       !.precomputed_slices = slices]
        world == Collect((id :> updated) @@ Others(id),
                         (content :> loaded.content) @@ arrays,
                         IF done
                         THEN (slices :> TrivialSlices(id, loaded.content.data[1])) @@ dicts
                         ELSE dicts)
    IN  IF ~Owning(st) THEN Same(Raise("AssertionError"))
        ELSE IF \E i \in DOMAIN arrays[st.content].data : arrays[st.content].data[i] # None
        THEN Same(Ok(Some(FALSE)))
        ELSE IF "content" \notin DOMAIN disk THEN Same(Raise("AssertionError"))
        ELSE [storages |-> world.storages, arrays |-> world.arrays,
              dicts |-> world.dicts,
              res |-> IF done THEN Ok(Some(TRUE)) ELSE Raise(loaded.err)]

\* as_matrix (lines 189-192): numpy.asmatrix does not copy, the matrix is the
\* content array seen as a matrix and is named by the reference of that array
as_matrix(id) ==
    LET st == storages[id]
        cached == IF st.content_as_matrix = None THEN Some(st.content)
                  ELSE st.content_as_matrix
    IN  [storages |-> [storages EXCEPT ![id].content_as_matrix = cached],
         res |-> Ok(cached)]

\* a range key is one slice [:n] per dimension of the stored operators, written as
\* the tuple of its stops.  slice_to_array gives the tuple of index tuples that is
\* the key of the dict, slice_to_size the sizes of a sliced operator
slice_to_array(key) == [d \in DOMAIN key |-> Range(key[d])]
slice_to_size(key) == [d \in DOMAIN key |-> key[d]]

\* what __getitem__ slices: a matrix, a vector or a function (line 214)
Sliceable(slot) == slot # None /\ slot[1].kind \in {"matrix", "vector", "function"}
\* an attribute that is set to the value of a map of the storage, None included
AttrOf(map) == IF map = None THEN None ELSE map[1]
\* lines 215-244 without lines 227-234: the sliced item keeps the sizes M and N of
\* the item it was cut from
SlicedItem_unsized(item, key, maps) ==
    [kind |-> item.kind, val |-> item.val, shape |-> slice_to_size(key),
     attrs |-> [name \in MapNameSet |-> AttrOf(maps[name])]
               @@ [a \in DOMAIN item.attrs \cap {"M", "N"} |-> item.attrs[a]]]
\* lines 215-244: the sliced item, with the maps of the storage and the sliced
\* sizes as attributes
SlicedItem(item, key, maps) ==
    LET size == slice_to_size(key)
    IN  [kind |-> item.kind, val |-> item.val, shape |-> size,
         attrs |-> (IF item.kind = "matrix"
                    THEN ("M" :> <<size[1]>>) @@ ("N" :> <<size[2]>>)
                    ELSE ("N" :> <<size[1]>>))
                   @@ [name \in MapNameSet |-> AttrOf(maps[name])]]
\* the dimensions of an item agree with the sizes (lines 229, 233)
SizeFits(item, key) == Len(key) = IF item.kind = "matrix" THEN 2 ELSE 1

\* line 248 without the assignment
Memoize_forgets(cache, slices, output) == cache
\* self._precomputed_slices[slices] = output (line 248)
Memoize(cache, slices, output) == (slices :> output) @@ cache

\* __getitem__ with a range key (lines 196-249): a key the dict knows returns the
\* storage kept there; otherwise a new storage of the shape of the content takes
\* the sliced items one after the other and is kept under the key
getitem_slice(id, key) ==
    LET st == storages[id]
        content == arrays[st.content]
        slices == slice_to_array(key)
        cache == dicts[st.precomputed_slices]
        Same(res) == [storages |-> storages, arrays |-> arrays, dicts |-> dicts,
                      res |-> res]
        output == FreshRef(DOMAIN storages \cup Names)
        output_content == FreshRef(ArrayRefs(storages))
        output_slices == FreshRef(DictRefs(storages))
        shape == content.shape
        sliced == [i \in DOMAIN content.data |->
                      Some(SlicedItem(content.data[i][1], key, st.maps))]
        new == [NewStorage(output_content, output_slices, shape[1],
                           IF Len(shape) = 1 THEN None ELSE Some(shape[2]))
                   EXCEPT !.maps = st.maps]
        world == Collect((output :> new) @@ storages,
                         (output_content :> [shape |-> shape, data |-> sliced])
                             @@ arrays,
                         (output_slices :>
                              TrivialSlices(output, Some(vector(sliced[Len(sliced)][1]))))
                             @@ [dicts EXCEPT ![st.precomputed_slices] =
                                                  Memoize(@, slices, output)])
    IN  IF slices \in DOMAIN cache THEN Same(Ok(Some(cache[slices])))
        ELSE IF Size(shape) = 0 THEN Same(Raise("ValueError"))
        ELSE IF \E i \in DOMAIN content.data :
                    \/ ~Sliceable(content.data[i])
                    \/ ~SizeFits(content.data[i][1], key)
        THEN Same(Raise("AssertionError"))
        ELSE [storages |-> world.storages, arrays |-> world.arrays,
              dicts |-> world.dicts, res |-> Ok(Some(output))]

\* __getitem__ with an index (lines 251-252)
getitem(id, key) ==
    Ok(arrays[storages[id].content].data[Offset(arrays[storages[id].content].shape, key)])

\* order (lines 303-305): len(self._content.shape)
order(id) == Ok(Some(Len(arrays[storages[id].content].shape)))
\* __len__ (lines 298-301): defined for a storage of order 1
len(id) ==
    IF order(id) # Ok(Some(1)) THEN Raise("AssertionError")
    ELSE Ok(Some(Size(arrays[storages[id].content].shape)))

\* the multi-index numpy.nditer visits at its k-th step, in C order
IndexAt(shape, k) ==
    IF Len(shape) = 1 THEN <<k - 1>> ELSE <<(k - 1) \div shape[2], (k - 1) % shape[2]>>
\* __iter__ (lines 294-296), run to its end: the slots numpy.nditer yields one
\* after the other; nditer refuses an array of size 0, as zerosize_ok is not
\* among its flags
iter(id) ==
    LET content == arrays[storages[id].content]
    IN  IF Size(content.shape) = 0 THEN Raise("ValueError")
        ELSE Ok([k \in 1..Size(content.shape) |->
                    content.data[Offset(content.shape, IndexAt(content.shape, k))]])

(***************************************************************************)
(* Calls on a storage.                                                     *)
(***************************************************************************)
\* the shapes a storage is constructed with: arg1, and arg2 or None
ConstructArgs == {<<0, None>>, <<1, None>>, <<2, None>>, <<1, Some(2)>>}
\* the operators a caller has computed: matrices, vectors, functions or floats of
\* MaxVal different values, or one of three mixtures
ItemPools == {{OnlineMatrix(val, NoComponents) : val \in 1..MaxVal},
              {OnlineMatrix(val, ComponentMaps(1)) : val \in 1..MaxVal},
              {OnlineVector(val, NoComponents) : val \in 1..MaxVal},
              {OnlineFunction(val, NoComponents) : val \in 1..MaxVal},
              {Float(val) : val \in 1..MaxVal},
              {OnlineMatrix(1, NoComponents), Float(1)},
              {OnlineMatrix(1, NoComponents), OnlineMatrix(2, ComponentMaps(1))},
              {OnlineVector(1, NoComponents), FunctionsList(1)}}

\* AffineExpansionStorage(arg1, arg2), bound to the name id
Construct(id, arg1, arg2) ==
    LET world == AES_init(id, arg1, arg2)
    IN  /\ storages' = world.storages
        /\ arrays' = world.arrays
        /\ dicts' = world.dicts
        /\ ret' = Call("AffineExpansionStorage", id, <<arg1, arg2>>, Ok(None))
        /\ UNCHANGED <<eim_state, rect_vars, disk, items, saved, readers>>

\* storage[key] = item
SetItem(id, key, item) ==
    LET world == setitem(id, key, item)
    IN  /\ storages' = world.storages
        /\ arrays' = world.arrays
        /\ dicts' = world.dicts
        /\ ret' = Call("setitem", id, <<key, item>>, world.res)
        /\ UNCHANGED <<eim_state, rect_vars, disk, items, saved, readers>>

\* storage.save(directory, filename)
Save(id) ==
    LET written == save(id)
    IN  /\ disk' = written.disk
        /\ saved' = written.saved
        /\ ret' = Call("save", id, <<>>, written.res)
        /\ UNCHANGED <<eim_state, rect_vars, storages, arrays, dicts, items, readers>>

\* storage.load(directory, filename)
Load(id) ==
    LET world == load(id)
    IN  /\ storages' = world.storages
        /\ arrays' = world.arrays
        /\ dicts' = world.dicts
        /\ ret' = Call("load", id, <<>>, world.res)
        /\ UNCHANGED <<eim_state, rect_vars, disk, items, saved, readers>>

\* AffineExpansionStorage(arg1) with the storage bound to the name arg1
ConstructFrom(id, arg1) ==
    LET world == AES_view(id, arg1)
    IN  /\ storages' = world.storages
        /\ arrays' = world.arrays
        /\ dicts' = world.dicts
        /\ ret' = Call("AffineExpansionStorage", id, <<arg1>>, Ok(None))
        /\ UNCHANGED <<eim_state, rect_vars, disk, items, saved, readers>>

\* storage.as_matrix()
AsMatrix(id) ==
    LET world == as_matrix(id)
    IN  /\ storages' = world.storages
        /\ ret' = Call("as_matrix", id, <<>>, world.res)
        /\ UNCHANGED <<eim_state, rect_vars, arrays, dicts, disk, items, saved, readers>>

\* storage[:n] or storage[:n, :n]
GetSlice(id, key) ==
    LET world == getitem_slice(id, key)
    IN  /\ storages' = world.storages
        /\ arrays' = world.arrays
        /\ dicts' = world.dicts
        /\ ret' = Call("getitem_slice", id, key, world.res)
        /\ UNCHANGED <<eim_state, rect_vars, disk, items, saved, readers>>

\* storage[key]
GetItem(id, key) ==
    /\ ret' = Call("getitem", id, key, getitem(id, key))
    /\ UNCHANGED <<eim_state, rect_vars, aes_vars>>

\* one name for a storage and one place on disk; no problem is decorated
InitStorage ==
    /\ InitProblems({}, {Raises}, {Raises}, {TupleStages(<<"offline", "online">>)})
    /\ storages = <<>>
    /\ arrays = <<>>
    /\ dicts = <<>>
    /\ disk = <<>>
    /\ items \in ItemPools
    /\ saved = None
    /\ readers = <<>>
NextStorage ==
    \/ \E args \in ConstructArgs : Construct(1, args[1], args[2])
    \/ \E id \in DOMAIN storages :
           \E key \in KeysOf(arrays[storages[id].content].shape), item \in items :
               SetItem(id, key, item)
    \/ \E id \in DOMAIN storages : Save(id)
    \/ \E id \in DOMAIN storages : Load(id)
SpecStorage == InitStorage /\ [][NextStorage]_vars

\* AffineExpansionStorage(arg1, arg2) with arguments of any type, bound to the
\* name id if it returns
Instantiate(id, arg1, arg2) ==
    LET world == init(id, arg1, arg2)
    IN  /\ storages' = world.storages
        /\ arrays' = world.arrays
        /\ dicts' = world.dicts
        /\ ret' = Call("init", id, <<arg1, arg2>>, world.res)
        /\ UNCHANGED <<eim_state, rect_vars, disk, items, saved, readers>>

\* for item in storage, to the end
Iterate(id) ==
    /\ ret' = Call("iter", id, <<>>, iter(id))
    /\ UNCHANGED <<eim_state, rect_vars, aes_vars>>

\* storage.order()
Order(id) ==
    /\ ret' = Call("order", id, <<>>, order(id))
    /\ UNCHANGED <<eim_state, rect_vars, aes_vars>>

\* len(storage)
Length(id) ==
    /\ ret' = Call("len", id, <<>>, len(id))
    /\ UNCHANGED <<eim_state, rect_vars, aes_vars>>

\* the arguments a caller constructs a storage with: a size of -1, 0 or 2, a str,
\* None, a storage it holds, or a tuple of up to two of its items
FirstArgs ==
    {IntArg(n) : n \in {-1, 0, 2}} \cup {StrArg}
    \cup {StorageArg(name) : name \in DOMAIN storages \cap Names}
    \cup {TupleArg(<<>>)} \cup {TupleArg(<<item>>) : item \in items}
    \cup {TupleArg(<<item, other>>) : item \in items, other \in items}
SecondArgs == {IntArg(n) : n \in {-1, 2}} \cup {StrArg, NoneArg}
ConstructPools == {{OnlineVector(1, NoComponents)},
                   {Float(1)},
                   {OnlineMatrix(1, NoComponents), OnlineMatrix(2, ComponentMaps(1))}}
InitConstruct ==
    /\ InitProblems({}, {Raises}, {Raises}, {TupleStages(<<"offline", "online">>)})
    /\ storages = <<>>
    /\ arrays = <<>>
    /\ dicts = <<>>
    /\ disk = <<>>
    /\ items \in ConstructPools
    /\ saved = None
    /\ readers = <<>>
NextConstruct ==
    \/ /\ 2 \notin DOMAIN storages
       /\ \E arg1 \in FirstArgs, arg2 \in SecondArgs : Instantiate(1, arg1, arg2)
    \/ /\ 1 \in DOMAIN storages
       /\ \E arg2 \in SecondArgs : Instantiate(2, StorageArg(1), arg2)
    \/ \E id \in DOMAIN storages \cap Names :
           \E key \in KeysOf(arrays[storages[id].content].shape), item \in items :
               SetItem(id, key, item)
    \/ \E id \in DOMAIN storages \cap Names : Iterate(id)
    \/ \E id \in DOMAIN storages \cap Names : Order(id)
    \/ \E id \in DOMAIN storages \cap Names : Length(id)
SpecConstruct == InitConstruct /\ [][NextConstruct]_vars

\* the range keys a caller slices its operators with: the same stop in every
\* dimension, the whole range or all of it but the last index
Stops == {ItemSize - 1, ItemSize}
RangeKeys(pool) ==
    {key \in {<<n>> : n \in Stops} \cup {<<n, n>> : n \in Stops} :
        \E item \in pool : SizeFits(item, key)}

\* the operators of a caller that overwrites: vectors, or matrices with component
\* maps, of MaxVal different values; or vectors with one set of component maps, with
\* another and with none, and an int
OverwritePools == {{OnlineVector(val, NoComponents) : val \in 1..MaxVal},
                   {OnlineMatrix(val, ComponentMaps(1)) : val \in 1..MaxVal},
                   {OnlineVector(1, ComponentMaps(1)), OnlineVector(2, ComponentMaps(2)),
                    OnlineVector(1, NoComponents), IntItem(2)}}
InitOverwrite ==
    /\ InitProblems({}, {Raises}, {Raises}, {TupleStages(<<"offline", "online">>)})
    /\ storages = <<>>
    /\ arrays = <<>>
    /\ dicts = <<>>
    /\ disk = <<>>
    /\ items \in OverwritePools
    /\ saved = None
    /\ readers = <<>>
\* one owning storage of one or two slots, bound once to the name 1, written and
\* sliced in any order
NextOverwrite ==
    \/ \E arg1 \in 1..2 : 1 \notin DOMAIN storages /\ Construct(1, arg1, None)
    \/ \E id \in DOMAIN storages \cap Names :
           \E key \in KeysOf(arrays[storages[id].content].shape), item \in items :
               SetItem(id, key, item)
    \/ \E id \in DOMAIN storages \cap Names, key \in RangeKeys(items) : GetSlice(id, key)
SpecOverwrite == InitOverwrite /\ [][NextOverwrite]_vars

\* the operators of the caller of a view: a vector, a matrix with component maps,
\* a function, or a matrix and a float
ViewPools == {{OnlineVector(1, NoComponents)},
              {OnlineMatrix(1, ComponentMaps(1))},
              {OnlineFunction(1, NoComponents)},
              {OnlineMatrix(1, NoComponents), Float(1)}}
InitView ==
    /\ InitProblems({}, {Raises}, {Raises}, {TupleStages(<<"offline", "online">>)})
    /\ storages = <<>>
    /\ arrays = <<>>
    /\ dicts = <<>>
    /\ disk = <<>>
    /\ items \in ViewPools
    /\ saved = None
    /\ readers = <<>>
\* a storage bound once to the name 1 and filled in memory, views of it bound to
\* the name 2, and the calls on either of them; save and load are called on a view
NextView ==
    \/ \E arg1 \in 0..2 : 1 \notin DOMAIN storages /\ Construct(1, arg1, None)
    \/ 1 \in DOMAIN storages /\ 2 \notin DOMAIN storages /\ ConstructFrom(2, 1)
    \/ \E id \in DOMAIN storages \cap Names :
           \E key \in KeysOf(arrays[storages[id].content].shape), item \in items :
               SetItem(id, key, item)
    \/ \E id \in DOMAIN storages \cap Names :
           \E key \in KeysOf(arrays[storages[id].content].shape) : GetItem(id, key)
    \/ \E id \in DOMAIN storages \cap Names, key \in RangeKeys(items) : GetSlice(id, key)
    \/ \E id \in DOMAIN storages \cap Names : AsMatrix(id)
    \/ \E id \in DOMAIN storages \cap Names : storages[id].recursive /\ Save(id)
    \/ \E id \in DOMAIN storages \cap Names : storages[id].recursive /\ Load(id)
SpecView == InitView /\ [][NextView]_vars

(***************************************************************************)
(* Reader threads on the storage bound to the name 1.  A thread may be     *)
(* preempted between two bytecodes: every read or write of an attribute of *)
(* the storage or of an entry of its dict is a step of its own, and what a *)
(* thread has computed and not yet stored is in its locals.                *)
(***************************************************************************)
Readers == {1, 2}
Idle == [pc |-> "idle", op |-> "none", key |-> <<>>, local |-> None, res |-> Ok(None)]
\* a storage by value: its content array, its maps and whether it is a view
ValueOf(S, A, id) ==
    [content |-> A[S[id].content], maps |-> S[id].maps, recursive |-> S[id].recursive]

\* line 191 without the assignment
AssignMatrix_skipped(st, matrix) == st
\* self._content_as_matrix = AffineExpansionStorageContent_AsMatrix(self._content)
\* (line 191)
AssignMatrix(st, matrix) == [st EXCEPT !.content_as_matrix = Some(matrix)]

\* the writer has filled the storage and hands it to the readers
Spawn ==
    /\ readers = <<>>
    /\ 1 \in DOMAIN storages
    /\ Size(arrays[storages[1].content].shape) > 0
    /\ \A i \in DOMAIN arrays[storages[1].content].data :
           arrays[storages[1].content].data[i] # None
    /\ readers' = [r \in Readers |-> Idle]
    /\ UNCHANGED <<eim_vars, rect_vars, storages, arrays, dicts, disk, items, saved>>

\* storage[key] with an index (line 252)
ReadIndex(r, key) ==
    /\ readers[r].pc = "idle"
    /\ readers' = [readers EXCEPT ![r] =
                       [Idle EXCEPT !.op = "getitem", !.key = key, !.res = getitem(1, key)]]
    /\ UNCHANGED <<eim_vars, rect_vars, storages, arrays, dicts, disk, items, saved>>

\* as_matrix, line 190: the test of self._content_as_matrix
AsMatrixTest(r) ==
    /\ readers[r].pc = "idle"
    /\ readers' = [readers EXCEPT ![r] =
                       [Idle EXCEPT !.op = "as_matrix",
                                    !.pc = IF storages[1].content_as_matrix = None
                                           THEN "as_matrix_assign"
                                           ELSE "as_matrix_return"]]
    /\ UNCHANGED <<eim_vars, rect_vars, storages, arrays, dicts, disk, items, saved>>
\* as_matrix, line 191
AsMatrixAssign(r) ==
    /\ readers[r].pc = "as_matrix_assign"
    /\ storages' = [storages EXCEPT ![1] = AssignMatrix(@, storages[1].content)]
    /\ readers' = [readers EXCEPT ![r].pc = "as_matrix_return"]
    /\ UNCHANGED <<eim_vars, rect_vars, arrays, dicts, disk, items, saved>>
\* as_matrix, line 192: the attribute is read again; the matrix is returned by
\* the value of the array it shares
AsMatrixReturn(r) ==
    /\ readers[r].pc = "as_matrix_return"
    /\ readers' = [readers EXCEPT
                       ![r].pc = "idle",
                       ![r].res = IF storages[1].content_as_matrix = None THEN Ok(None)
                                  ELSE Ok(Some(arrays[storages[1].content_as_matrix[1]]))]
    /\ UNCHANGED <<eim_vars, rect_vars, storages, arrays, dicts, disk, items, saved>>

\* storage[range key], lines 202-204: the key is normalised and looked up
SliceLookup(r, key) ==
    /\ readers[r].pc = "idle"
    /\ readers' = [readers EXCEPT ![r] =
                       [Idle EXCEPT !.op = "getitem_slice", !.key = key,
                                    !.pc = IF slice_to_array(key) \in
                                                  DOMAIN dicts[storages[1].precomputed_slices]
                                           THEN "slice_hit" ELSE "slice_build"]]
    /\ UNCHANGED <<eim_vars, rect_vars, storages, arrays, dicts, disk, items, saved>>
\* line 205: the entry is read and returned, by value
SliceHit(r) ==
    /\ readers[r].pc = "slice_hit"
    /\ LET cache == dicts[storages[1].precomputed_slices]
           slices == slice_to_array(readers[r].key)
       IN  readers' = [readers EXCEPT
                           ![r].pc = "idle",
                           ![r].res = IF slices \in DOMAIN cache
                                      THEN Ok(Some(ValueOf(storages, arrays, cache[slices])))
                                      ELSE Raise("KeyError")]
    /\ UNCHANGED <<eim_vars, rect_vars, storages, arrays, dicts, disk, items, saved>>
\* lines 207-246: the output is built from the slots of the content; nothing
\* refers to it but the local variable
SliceBuild(r) ==
    /\ readers[r].pc = "slice_build"
    /\ LET st == storages[1]
           content == arrays[st.content]
           key == readers[r].key
       IN  readers' = [readers EXCEPT ![r] =
               IF \E i \in DOMAIN content.data :
                      \/ ~Sliceable(content.data[i])
                      \/ ~SizeFits(content.data[i][1], key)
               THEN [@ EXCEPT !.pc = "idle", !.res = Raise("AssertionError")]
               ELSE [@ EXCEPT
                        !.pc = "slice_store",
                        !.local = Some([content |->
                                            [shape |-> content.shape,
                                             data |-> [i \in DOMAIN content.data |->
                                                 Some(SlicedItem(content.data[i][1], key,
                                                                 st.maps))]],
                                        maps |-> st.maps,
                                        recursive |-> FALSE])]]
    /\ UNCHANGED <<eim_vars, rect_vars, storages, arrays, dicts, disk, items, saved>>
\* line 248: the output becomes the entry of the dict, in place of the entry
\* another thread may have stored since the lookup
SliceStore(r) ==
    /\ readers[r].pc = "slice_store"
    /\ LET st == storages[1]
           built == readers[r].local[1]
           output == FreshRef(DOMAIN storages \cup Names)
           output_content == FreshRef(ArrayRefs(storages))
           output_slices == FreshRef(DictRefs(storages))
           shape == built.content.shape
           new == [NewStorage(output_content, output_slices, shape[1],
                              IF Len(shape) = 1 THEN None ELSE Some(shape[2]))
                      EXCEPT !.maps = built.maps]
           world == Collect((output :> new) @@ storages,
                            (output_content :> built.content) @@ arrays,
                            (output_slices :>
                                 TrivialSlices(output,
                                     Some(vector(built.content.data[Len(built.content.data)][1]))))
                                @@ [dicts EXCEPT ![st.precomputed_slices] =
                                        Memoize(@, slice_to_array(readers[r].key), output)])
       IN  /\ storages' = world.storages
           /\ arrays' = world.arrays
           /\ dicts' = world.dicts
    /\ readers' = [readers EXCEPT ![r].pc = "slice_return"]
    /\ UNCHANGED <<eim_vars, rect_vars, disk, items, saved>>
\* line 249: the output is returned, by value
SliceReturn(r) ==
    /\ readers[r].pc = "slice_return"
    /\ readers' = [readers EXCEPT ![r].pc = "idle", ![r].local = None,
                                  ![r].res = Ok(readers[r].local)]
    /\ UNCHANGED <<eim_vars, rect_vars, storages, arrays, dicts, disk, items, saved>>

\* one writer constructs and fills the storage, in any order and as often as it
\* likes; once it has handed the storage over it does nothing more, and two
\* threads read
NextReaders ==
    \/ \E arg1 \in 1..2 : readers = <<>> /\ 1 \notin DOMAIN storages /\ Construct(1, arg1, None)
    \/ /\ readers = <<>>
       /\ 1 \in DOMAIN storages
       /\ \E key \in KeysOf(arrays[storages[1].content].shape), item \in items :
              SetItem(1, key, item)
    \/ Spawn
    \/ /\ readers # <<>>
       /\ \E r \in Readers, key \in KeysOf(arrays[storages[1].content].shape) :
              ReadIndex(r, key)
    \/ \E r \in DOMAIN readers : AsMatrixTest(r)
    \/ \E r \in DOMAIN readers : AsMatrixAssign(r)
    \/ \E r \in DOMAIN readers : AsMatrixReturn(r)
    \/ \E r \in DOMAIN readers, key \in RangeKeys(items) : SliceLookup(r, key)
    \/ \E r \in DOMAIN readers : SliceHit(r)
    \/ \E r \in DOMAIN readers : SliceBuild(r)
    \/ \E r \in DOMAIN readers : SliceStore(r)
    \/ \E r \in DOMAIN readers : SliceReturn(r)
SpecReaders == InitView /\ [][NextReaders]_vars

(***************************************************************************)
(* The reduced problem with online rectification                           *)
(* (OnlineRectificationDecoratedReducedProblem_Class).  Its operator       *)
(* "projection_reduced_snapshots" is the storage bound to the name 1.  The *)
(* operator "projection_truth_snapshots", a storage of one slot kept in a  *)
(* file of its own, and the parameter the snapshots are solved at, which   *)
(* line 117 puts back, are left out.                                       *)
(***************************************************************************)
MaxKeywords == 2
\* the keywords of the online solve other than "online_rectification", in the
\* order of self._online_solve_default_kwargs
OtherKeywords == <<"online_stabilization", "online_vanishing_viscosity",
                   "online_other">>
Rectify == "online_rectification"
\* line 40: self._online_solve_default_kwargs["online_rectification"] = True
DefaultKwargs(n) ==
    {d \in [{OtherKeywords[i] : i \in 1..n} \cup {Rectify} -> BOOLEAN] : d[Rectify]}
KeysOfKwargs(n) == SubSeq(OtherKeywords, 1, n) \o <<Rectify>>

\* the class made by OnlineSolveKwargsGenerator(**defaults) (line 41), called with
\* positional and keyword arguments: a positional argument is the keyword at its
\* position, and a keyword that is not given takes its default
OnlineSolveKwargs(keys, defaults, args, kwargs) ==
    [k \in DOMAIN defaults |->
        LET i == CHOOSE j \in 1..Len(keys) : keys[j] = k
        IN  IF i <= Len(args) THEN args[i]
            ELSE IF k \in DOMAIN kwargs THEN kwargs[k]
            ELSE defaults[k]]

\* cartesian_product((True, False), repeat=len(defaults) - 1) (lines 46-47)
OtherArgs(keys) == cartesian_product([i \in 1..(Len(keys) - 1) |-> <<TRUE, FALSE>>])

\* lines 43, 46-48: one OnlineSolveKwargs(*(other_args + (True, ))) per other_args
online_solve_kwargs_with_rectification(keys, defaults) ==
    [n \in 1..Len(OtherArgs(keys)) |->
        OnlineSolveKwargs(keys, defaults, OtherArgs(keys)[n] \o <<TRUE>>, <<>>)]

\* faulty variant of online_solve_kwargs_without_rectification: the list is built
\* in the reverse order
online_solve_kwargs_without_rectification_reversed(keys, defaults) ==
    [n \in 1..Len(OtherArgs(keys)) |->
        OnlineSolveKwargs(keys, defaults,
                          OtherArgs(keys)[Len(OtherArgs(keys)) + 1 - n] \o <<FALSE>>,
                          <<>>)]

\* lines 44, 46-47, 49-51: one OnlineSolveKwargs(*(other_args + (False, ))) per
\* other_args
online_solve_kwargs_without_rectification(keys, defaults) ==
    [n \in 1..Len(OtherArgs(keys)) |->
        OnlineSolveKwargs(keys, defaults, OtherArgs(keys)[n] \o <<FALSE>>, <<>>)]

\* list.index (line 128): the first position of x in the list, ValueError if none
list_index(list, x) ==
    IF \E n \in 1..Len(list) : list[n] = x
    THEN Ok(CHOOSE n \in 1..Len(list) : list[n] = x /\ \A m \in 1..(n - 1) : list[m] # x)
    ELSE Raise("ValueError")

\* EllipticCoerciveReducedProblem_DerivedClass._solve (lines 127, 135): the reduced
\* solution is a function of the keywords other than "online_rectification"
RECURSIVE ReducedSolveFrom(_, _, _)
ReducedSolveFrom(keys, kwargs, i) ==
    IF i >= Len(keys) THEN 1
    ELSE (IF kwargs[keys[i]] THEN 1 ELSE 0) + 2 * (ReducedSolveFrom(keys, kwargs, i + 1) - 1) + 1
ReducedSolve(keys, kwargs) == ReducedSolveFrom(keys, kwargs, 1)

\* the reduced problem, once constructed
Rectification == rectification[1]
IsLoaded(pc) == pc \in {"assembled", "online"}

\* _solve (lines 123-135) with the keyword arguments kwargs
RectifiedSolve(kwargs) ==
    LET R == Rectification
        online_solve_kwargs == OnlineSolveKwargs(R.keys, R.defaults, <<>>, kwargs)
        solution == ReducedSolve(R.keys, online_solve_kwargs)
        q == list_index(R.online_solve_kwargs_with_rectification, online_solve_kwargs)
        content == arrays[storages[1].content]
    IN  IF ~(R.training_finished /\ online_solve_kwargs[Rectify])
        THEN Ok([solution |-> solution, q |-> 0, snapshots |-> None])
        ELSE IF ~q.ok THEN q
        ELSE IF q.val > Size(content.shape) THEN Raise("IndexError")
        ELSE IF getitem(1, <<q.val - 1>>).val = None THEN Raise("TypeError")
        ELSE Ok([solution |-> solution, q |-> q.val,
                 snapshots |-> getitem(1, <<q.val - 1>>).val])

\* __init__ (lines 31-52) for a reduced problem of n other keywords
ReducedProblemInit(n, defaults) ==
    /\ rectification = None
    /\ rectification' =
           Some([keys |-> KeysOfKwargs(n),
                 defaults |-> defaults,
                 online_solve_kwargs_with_rectification |->
                     online_solve_kwargs_with_rectification(KeysOfKwargs(n), defaults),
                 online_solve_kwargs_without_rectification |->
                     online_solve_kwargs_without_rectification(KeysOfKwargs(n), defaults),
                 training_finished |-> FALSE,
                 pc |-> "constructed",
                 q |-> 0])
    /\ ret' = Call("OnlineRectificationDecoratedReducedProblem", 1, n, Ok(None))
    /\ UNCHANGED <<eim_state, aes_vars>>

\* _init_operators("offline") (lines 59-62)
InitOperatorsOffline ==
    /\ rectification # None
    /\ Rectification.pc = "constructed"
    /\ LET R == Rectification
           world == AES_init(1, Len(R.online_solve_kwargs_with_rectification), None)
       IN  IF Len(R.online_solve_kwargs_with_rectification)
                  # Len(R.online_solve_kwargs_without_rectification)
           THEN /\ ret' = Call("_init_operators", 1, "offline", Raise("AssertionError"))
                /\ UNCHANGED <<storages, arrays, dicts, rectification>>
           ELSE /\ storages' = world.storages
                /\ arrays' = world.arrays
                /\ dicts' = world.dicts
                /\ rectification' = Some([R EXCEPT !.pc = "offline"])
                /\ ret' = Call("_init_operators", 1, "offline", Ok(None))
    /\ UNCHANGED <<eim_state, disk, items, saved, readers>>

\* assemble_operator("projection_reduced_snapshots", "offline"), one turn of the
\* loop of lines 106-113: the matrix of the solutions with the keywords at position
\* q of the list without rectification is stored in the slot q
AssembleSlot ==
    /\ rectification # None
    /\ Rectification.pc = "offline"
    /\ Rectification.q < Len(Rectification.online_solve_kwargs_without_rectification)
    /\ LET R == Rectification
           online_solve_kwargs == R.online_solve_kwargs_without_rectification[R.q + 1]
           solved == RectifiedSolve(online_solve_kwargs)
           world == setitem(1, <<R.q>>, OnlineMatrix(solved.val.solution, NoComponents))
       IN  /\ storages' = world.storages
           /\ arrays' = world.arrays
           /\ dicts' = world.dicts
           /\ rectification' = Some([R EXCEPT !.q = R.q + 1])
           /\ ret' = Call("assemble_operator", 1, R.q, world.res)
    /\ UNCHANGED <<eim_state, disk, items, saved, readers>>

\* the end of assemble_operator("projection_reduced_snapshots", "offline") (lines
\* 115-117): the storage is saved
AssembleSave ==
    /\ rectification # None
    /\ Rectification.pc = "offline"
    /\ Rectification.q = Len(Rectification.online_solve_kwargs_without_rectification)
    /\ LET written == save(1)
       IN  /\ disk' = written.disk
           /\ saved' = written.saved
           /\ ret' = Call("save", 1, <<>>, written.res)
    /\ rectification' = Some([Rectification EXCEPT !.pc = "assembled", !.q = 0])
    /\ UNCHANGED <<eim_state, storages, arrays, dicts, items, readers>>

\* the end of the offline stage: is_training_finished(self.truth_problem) (line
\* 126) holds from now on
FinishTraining ==
    /\ rectification # None
    /\ Rectification.pc = "assembled"
    /\ ~Rectification.training_finished
    /\ rectification' = Some([Rectification EXCEPT !.training_finished = TRUE])
    /\ ret' = Call("training_finished", 1, <<>>, Ok(None))
    /\ UNCHANGED <<eim_state, aes_vars>>

\* assemble_operator("projection_reduced_snapshots", "online"), lines 76-77: the
\* operator is a new storage of one slot
AssembleOnline ==
    /\ rectification # None
    /\ Rectification.pc = "assembled"
    /\ Rectification.training_finished
    /\ LET world == AES_init(1, 1, None)
       IN  /\ storages' = world.storages
           /\ arrays' = world.arrays
           /\ dicts' = world.dicts
    /\ rectification' = Some([Rectification EXCEPT !.pc = "loading"])
    /\ ret' = Call("AffineExpansionStorage", 1, <<1, None>>, Ok(None))
    /\ UNCHANGED <<eim_state, disk, items, saved, readers>>

\* assemble_operator("projection_reduced_snapshots", "online"), lines 78-79: the
\* new storage is loaded from the file
AssembleLoad ==
    /\ rectification # None
    /\ Rectification.pc = "loading"
    /\ LET world == load(1)
       IN  /\ storages' = world.storages
           /\ arrays' = world.arrays
           /\ dicts' = world.dicts
           /\ ret' = Call("load", 1, <<>>, world.res)
    /\ rectification' = Some([Rectification EXCEPT !.pc = "online"])
    /\ UNCHANGED <<eim_state, disk, items, saved, readers>>

\* the keyword arguments a caller passes to solve: any of the keywords, each True
\* or False
CallerKwargs(keys) ==
    UNION {[S -> BOOLEAN] : S \in SUBSET {keys[i] : i \in 1..Len(keys)}}

\* _solve(N, **kwargs) (lines 123-135) between two other calls
RectificationSolve(kwargs) ==
    /\ rectification # None
    /\ Rectification.pc \in {"constructed", "assembled", "online"}
    /\ ret' = Call("_solve", 1, kwargs, RectifiedSolve(kwargs))
    /\ UNCHANGED <<eim_state, aes_vars, rect_vars>>

InitRectification ==
    /\ InitProblems({}, {Raises}, {Raises}, {TupleStages(<<"offline", "online">>)})
    /\ NoStorage
NextRectification ==
    \/ \E n \in 0..MaxKeywords : \E defaults \in DefaultKwargs(n) :
           ReducedProblemInit(n, defaults)
    \/ InitOperatorsOffline
    \/ AssembleSlot
    \/ AssembleSave
    \/ FinishTraining
    \/ AssembleOnline
    \/ AssembleLoad
    \/ rectification # None /\ \E kwargs \in CallerKwargs(Rectification.keys) :
           RectificationSolve(kwargs)
SpecRectification == InitRectification /\ [][NextRectification]_vars

(***************************************************************************)
(* Properties of the composition.  Every action records its call in ret,   *)
(* and the actions that record a result leave the problem unchanged, so in *)
(* every state ret is the outcome of its call on the problem as it is.     *)
(***************************************************************************)
IsCall(op) == ret.op = op

\* the call recorded in ret took the EIM branch of assemble_operator / compute_theta
EIMBranch ==
    /\ ret.arg \in DOMAIN separated_forms[ret.p]
    /\ InStages("offline", ret.p)

EIMAssembled == IsCall("assemble_operator") /\ EIMBranch /\ ret.res.ok
EIMThetas == IsCall("compute_theta") /\ EIMBranch /\ ret.res.ok

\* what an entry of either tuple refers to
Tag(e) == [kind |-> e.kind, q |-> e.q, index |-> e.index, coeffs |-> e.coeffs]
Tags(val) == [n \in 1..Len(val) |-> Tag(val[n])]

BasisLength(p, factor) == EIM_approximations[p][factor].N

\* C1 (as claimed): whenever compute_theta returns the thetas of a registered term,
\* the tuple is as long as the tuple of operators assemble_operator returns for the
\* term, and position k of both refers to the same form, addend and basis indices.
C1_LockStep ==
    EIMThetas =>
        Tags(ret.res.val) = Tags(assemble_operator_EIM(ret.p, ret.arg).val)

\* the entries of a result that come from addend index of form q
EntriesOf(val, q, index) ==
    SelectSeq(val, LAMBDA e : e.kind = "eim" /\ e.q = q /\ e.index = index)

\* the k-th index (from 1) of the n-th tuple (from 1) of a product of sequences of
\* lengths lens, when the last sequence varies fastest
Digit(n, lens, k) ==
    (((n - 1) \div SeqProduct(SubSeq(lens, k + 1, Len(lens)))) % lens[k]) + 1

RowMajor(entries, addend, lens) ==
    /\ Len(entries) = SeqProduct(lens)
    /\ \A n \in 1..Len(entries) :
           entries[n].coeffs = [k \in 1..Len(addend) |-> <<addend[k], Digit(n, lens, k)>>]

\* the number of interpolated thetas of a factor of form q
ThetaLength(p, term, q, factor) ==
    IF N_EIM[p] = None THEN BasisLength(p, factor) ELSE N_EIM[p][1][term][q]

\* C2: the operators of an addend with factors f1..fm are the n1*...*nm operators of
\* the basis-index tuples in row-major order (last factor fastest), the thetas of the
\* addend are in row-major order too, and without truncation both orders coincide.
C2_RowMajor ==
    (EIMAssembled \/ EIMThetas) =>
        \A q \in 1..Len(separated_forms[ret.p][ret.arg]) :
            \A index \in 1..Len(separated_forms[ret.p][ret.arg][q].coefficients) :
                LET addend == separated_forms[ret.p][ret.arg][q].coefficients[index]
                    entries == EntriesOf(ret.res.val, q, index)
                IN  IF IsCall("assemble_operator")
                    THEN RowMajor(entries, addend,
                                  [k \in 1..Len(addend) |-> BasisLength(ret.p, addend[k])])
                    ELSE /\ RowMajor(entries, addend,
                                     [k \in 1..Len(addend) |->
                                        ThetaLength(ret.p, ret.arg, q, addend[k])])
                         /\ N_EIM[ret.p] = None =>
                                Tags(entries) =
                                    Tags(EntriesOf(assemble_operator_EIM(ret.p, ret.arg).val,
                                                   q, index))

\* C2 witness: the thetas of an addend whose factors have bases of 2 and 3 functions
C2_Witness ==
    /\ EIMThetas
    /\ N_EIM[ret.p] = None
    /\ \E q \in 1..Len(separated_forms[ret.p][ret.arg]) :
           /\ separated_forms[ret.p][ret.arg][q].coefficients = <<<<"c2", "c1">>>>
           /\ BasisLength(ret.p, "c2") = 2
           /\ BasisLength(ret.p, "c1") = 3
           /\ [n \in 1..6 |-> EntriesOf(ret.res.val, q, 1)[n].coeffs] =
                  << <<<<"c2", 1>>, <<"c1", 1>>>>, <<<<"c2", 1>>, <<"c1", 2>>>>,
                     <<<<"c2", 1>>, <<"c1", 3>>>>, <<<<"c2", 2>>, <<"c1", 1>>>>,
                     <<<<"c2", 2>>, <<"c1", 2>>>>, <<<<"c2", 2>>, <<"c1", 3>>>> >>

\* the interpolated theta entry the tag <<factor, i>> of an entry of form q refers to
InterpolatedValue(p, term, q, tag) ==
    compute_interpolated_theta(p, tag[1], TruncationOrder(p, term, q)).val[tag[2]].value

\* C3: every EIM-expanded theta is the original theta of its form times the product
\* of the interpolated thetas of its tuple, one per factor; the theta of an unchanged
\* addend is the original theta of its form.
C3_ThetaValues ==
    EIMThetas =>
        \A n \in 1..Len(ret.res.val) :
            LET e == ret.res.val[n]
                original == ParentComputeTheta(ret.p, ret.arg).val[e.q]
                addend == separated_forms[ret.p][ret.arg][e.q].coefficients[e.index]
            IN  IF e.kind = "eim"
                THEN /\ Len(e.coeffs) = Len(addend)
                     /\ e.value = original
                                  * SeqProduct([k \in 1..Len(e.coeffs) |->
                                       InterpolatedValue(ret.p, ret.arg, e.q, e.coeffs[k])])
                ELSE e.value = original

\* C3 witness: thetas holding a product over two factors and an unchanged addend
C3_Witness ==
    /\ EIMThetas
    /\ \E n \in 1..Len(ret.res.val) :
           ret.res.val[n].kind = "eim" /\ Len(ret.res.val[n].coeffs) = 2
    /\ \E n \in 1..Len(ret.res.val) : ret.res.val[n].kind = "unchanged"

\* C4 (as claimed): in the operators of a term every unchanged addend comes after
\* all EIM-expanded operators of the term.
C4_UnchangedLast ==
    EIMAssembled =>
        \A i \in 1..Len(ret.res.val) : \A j \in 1..Len(ret.res.val) :
            (ret.res.val[i].kind = "unchanged" /\ ret.res.val[j].kind = "eim") => j < i

\* C4 (amended): the operators of a term are grouped by form, in form order; within
\* a form the unchanged addends come after the EIM-expanded operators of that form,
\* in their original order, and each of them appears once.
C4_UnchangedLastPerForm ==
    EIMAssembled =>
        /\ \A i \in 1..Len(ret.res.val) : \A j \in 1..Len(ret.res.val) :
               i < j =>
                   /\ ret.res.val[i].q <= ret.res.val[j].q
                   /\ (ret.res.val[i].q = ret.res.val[j].q
                       /\ ret.res.val[i].kind = "unchanged") =>
                          /\ ret.res.val[j].kind = "unchanged"
                          /\ ret.res.val[i].index < ret.res.val[j].index
        /\ \A q \in 1..Len(separated_forms[ret.p][ret.arg]) :
               Len(SelectSeq(ret.res.val, LAMBDA e : e.kind = "unchanged" /\ e.q = q))
                   = separated_forms[ret.p][ret.arg][q].unchanged

\* C4 witness: unchanged addends of the first form precede operators of the second
C4_Witness ==
    /\ EIMAssembled
    /\ \E i \in 1..Len(ret.res.val) : \E j \in 1..Len(ret.res.val) :
           /\ i < j
           /\ ret.res.val[i].kind = "unchanged" /\ ret.res.val[i].q = 1
           /\ ret.res.val[j].kind = "eim" /\ ret.res.val[j].q = 2
    /\ \E i \in 1..Len(ret.res.val) :
           ret.res.val[i].kind = "eim" /\ ret.res.val[i].q = 1

\* the scenario of C5: one form, one addend of one factor, no unchanged addend, a
\* basis of 3 functions, and the truncation order 2 given to _solve
C5_Scenario ==
    /\ separated_forms[ret.p][ret.arg] = <<Form(<<<<"c1">>>>, 0)>>
    /\ BasisLength(ret.p, "c1") = 3
    /\ previous_kwargs[ret.p] = Some(UniformKwargs(2))
    /\ N_EIM[ret.p] # None
    /\ ret.arg \in DOMAIN N_EIM[ret.p][1]
    /\ N_EIM[ret.p][1][ret.arg] = <<2>>

\* C5 (as claimed): in that scenario the operators and the thetas are both 2 long.
C5_BothOfLengthTwo ==
    ((EIMAssembled \/ EIMThetas) /\ C5_Scenario) => Len(ret.res.val) = 2

\* the table of _N_EIM has the entry compute_theta reads for the term
TableFits(p, term) ==
    /\ N_EIM[p] # None
    /\ term \in DOMAIN N_EIM[p][1]
    /\ Len(N_EIM[p][1][term]) = Len(separated_forms[p][term])

\* a factor of the term is asked for more interpolated thetas than its basis holds
OrderExceedsBasis(p, term) ==
    \E q \in 1..Len(separated_forms[p][term]) :
        \E index \in 1..Len(separated_forms[p][term][q].coefficients) :
            \E k \in 1..Len(separated_forms[p][term][q].coefficients[index]) :
                N_EIM[p][1][term][q]
                    > BasisLength(p, separated_forms[p][term][q].coefficients[index][k])

\* C6: when the order stored for a form is larger than the basis of one of its
\* factors, compute_theta fails with an out-of-range error and returns no tuple.
C6_OrderBeyondBasisFails ==
    (IsCall("compute_theta") /\ EIMBranch
     /\ TableFits(ret.p, ret.arg) /\ OrderExceedsBasis(ret.p, ret.arg))
        => ret.res = Raise("OutOfRange")

\* C6 witness: order 4 asked of a basis of 3 functions
C6_Witness ==
    /\ IsCall("compute_theta") /\ EIMBranch
    /\ previous_kwargs[ret.p] = Some(UniformKwargs(4))
    /\ TableFits(ret.p, ret.arg)
    /\ \A factor \in DOMAIN EIM_approximations[ret.p] : BasisLength(ret.p, factor) = 3
    /\ ret.res = Raise("OutOfRange")

\* the mapping d has every registered term, with one order per form of the term (the
\* length separated_forms[term] was given when it was built)
MappingFits(p, d) ==
    \A term \in DOMAIN separated_forms[p] :
        term \in DOMAIN d /\ Len(d[term]) = Len(separated_forms[p][term])

IsDictKwargs(kwargs) == kwargs.EIM # None /\ kwargs.EIM[1].isdict

C8_UnregisteredFallsThrough ==
    /\ (IsCall("assemble_operator") /\ ret.arg \notin DOMAIN separated_forms[ret.p])
           => ret.res = ParentAssembleOperator(ret.arg)
    /\ (IsCall("compute_theta") /\ ret.arg \notin DOMAIN separated_forms[ret.p])
           => ret.res = ParentComputeTheta(ret.p, ret.arg)

\* C8 witness: the term whose assembly raised ValueError during
\* _init_EIM_approximations is asked for afterwards
C8_Witness ==
    /\ IsCall("assemble_operator")
    /\ ret.arg = "f" /\ forms["f"].raises
    /\ "a" \in DOMAIN separated_forms[ret.p]
    /\ ret.res = Raise("ValueError")

\* where the loops of _init_EIM_approximations meet a factor first
FirstOccurrence(factor) ==
    LET n == CHOOSE n \in 1..Len(Occurrences) :
                 /\ Occurrences[n][5] = factor
                 /\ \A m \in 1..(n - 1) : Occurrences[m][5] # factor
    IN  SubSeq(Occurrences[n], 1, 4)

\* C9: once _init_EIM_approximations has run on a problem, its EIM_approximations
\* has exactly the factors of the registered terms as keys, each mapped to the
\* approximation created for this problem at the factor's first occurrence; before,
\* the map is empty whatever happened on another problem.
C9_OneApproximationPerFactor ==
    \A p \in Problems :
        IF mu_symbolic[p]
        THEN /\ DOMAIN separated_forms[p] = {t \in TermSet : ~forms[t].raises}
             /\ DOMAIN EIM_approximations[p]
                    = {Occurrences[n][5] : n \in 1..Len(Occurrences)}
             /\ \A factor \in DOMAIN EIM_approximations[p] :
                    /\ EIM_approximations[p][factor].problem = p
                    /\ EIM_approximations[p][factor].name = <<p>> \o FirstOccurrence(factor)
        ELSE EIM_approximations[p] = <<>>

\* C9 witness: two problems with a factor that occurs in two addends and a factor
\* that occurs in two terms; their approximations of one factor differ
C9_Witness ==
    /\ \A p \in Problems : mu_symbolic[p]
    /\ Cardinality(Problems) = 2
    /\ forms["a"].forms = <<Form(<<<<"c1">>, <<"c2", "c1">>>>, 0)>>
    /\ ~forms["f"].raises
    /\ BasisLength(1, "c1") = 2 /\ BasisLength(2, "c1") = 0
    /\ BasisLength(1, "c2") = 0 /\ BasisLength(2, "c2") = 1

(***************************************************************************)
(* Properties of the storage.                                              *)
(***************************************************************************)
\* the storage is as __init__ leaves it
IsFresh(id) ==
    /\ ~storages[id].recursive
    /\ \A i \in DOMAIN arrays[storages[id].content].data :
           arrays[storages[id].content].data[i] = None
    /\ storages[id].maps = NoMaps
    /\ storages[id].content_as_matrix = None
    /\ dicts[storages[id].precomputed_slices] = <<>>

\* the array has a slot and no slot of it is None
FullyPopulated(content) ==
    /\ Size(content.shape) > 0
    /\ \A i \in DOMAIN content.data : content.data[i] # None
\* every slot holds a matrix, or every slot a vector, a function, a float
OneKind(content) ==
    \E kind \in SavedKinds :
        \A i \in DOMAIN content.data :
            content.data[i] # None /\ content.data[i][1].kind = kind

\* what a slot holds: kind, numeric values and shape
Holding(slot) ==
    IF slot = None THEN None
    ELSE Some([kind |-> slot[1].kind, val |-> slot[1].val, shape |-> slot[1].shape])
\* the size attributes M and N of the item of a slot
SizeOf(slot) == [a \in DOMAIN slot[1].attrs \cap {"M", "N"} |-> slot[1].attrs[a]]
ContentOf(content) ==
    [shape |-> content.shape,
     data |-> [i \in DOMAIN content.data |-> Holding(content.data[i])]]

\* the storage whose save last succeeded holds one kind in every slot, and has the
\* shape of the storage id
SavedFor(id) ==
    /\ saved # None
    /\ FullyPopulated(saved[1].content)
    /\ OneKind(saved[1].content)
    /\ saved[1].content.shape = arrays[storages[id].content].shape

\* C10: when a storage with at least one slot, all slots holding matrices (or all
\* vectors, functions, floats), has been saved, load on a fresh storage of the same
\* shape returns True and leaves it with the same kind, values and shape in every
\* slot, the sizes M and N of the first saved slot on every slot, and the three
\* component maps of the saved storage
C10_SaveLoadRoundTrip ==
    [][\A id \in DOMAIN storages :
           (ret'.op = "load" /\ ret'.p = id /\ IsFresh(id) /\ SavedFor(id))
           => /\ ret'.res = Ok(Some(TRUE))
              /\ ContentOf(arrays'[storages'[id].content]) = ContentOf(saved[1].content)
              /\ \A i \in DOMAIN saved[1].content.data :
                     SizeOf(arrays'[storages'[id].content].data[i])
                         = SizeOf(saved[1].content.data[1])
              /\ storages'[id].maps = saved[1].maps]_vars

\* a 2-D storage of two different matrices with component maps has been saved and
\* loaded
C10_Witness ==
    /\ ret.op = "load"
    /\ ret.res = Ok(Some(TRUE))
    /\ SavedFor(ret.p)
    /\ Len(saved[1].content.shape) = 2
    /\ saved[1].maps # NoMaps
    /\ saved[1].content.data[1] # saved[1].content.data[2]
    /\ saved[1].content.data[1][1].kind = "matrix"
    /\ ContentOf(arrays[storages[ret.p].content]) = ContentOf(saved[1].content)
    /\ storages[ret.p].maps = saved[1].maps

\* the storage is AffineExpansionStorage(0), whatever has been called on it since
IsEmptyStorage(id) == arrays[storages[id].content].shape = <<0>>

\* C11: AffineExpansionStorage(0) has order 1 and length 0, its save completes
\* without error, and so does the load into an AffineExpansionStorage(0) of what an
\* AffineExpansionStorage(0) saved, which again leaves order 1 and length 0
C11_EmptyRoundTrip ==
    [][\A id \in DOMAIN storages :
           IsEmptyStorage(id)
           => /\ order(id) = Ok(Some(1))
              /\ len(id) = Ok(Some(0))
              /\ (ret'.op = "save" /\ ret'.p = id) => ret'.res.ok
              /\ (ret'.op = "load" /\ ret'.p = id
                      /\ "content" \in DOMAIN disk /\ disk["content"].shape = <<0>>)
                  => /\ ret'.res.ok
                     /\ order(id)' = Ok(Some(1))
                     /\ len(id)' = Ok(Some(0))]_vars

\* some slot of the storage is not None
HasContent(id) ==
    \E i \in DOMAIN arrays[storages[id].content].data :
        arrays[storages[id].content].data[i] # None

\* C12: load on an owning storage with a slot that is not None returns False and
\* leaves content, maps, as-matrix cache and slice cache as they are; load on an
\* owning storage whose slots are all None, at a place where a save has completed,
\* returns True
C12_LoadOnce ==
    [][\A id \in DOMAIN storages :
           (ret'.op = "load" /\ ret'.p = id /\ ~storages[id].recursive)
           => IF HasContent(id)
              THEN /\ ret'.res = Ok(Some(FALSE))
                   /\ UNCHANGED <<storages, arrays, dicts>>
              ELSE saved # None => ret'.res = Ok(Some(TRUE))]_vars

\* the last call was storage[range key] and it returned a storage
Sliced == ret.op = "getitem_slice" /\ ret.res.ok

\* C13: when get(rangeKey) has returned, the dict of precomputed slices of the
\* storage holds the returned storage under the normalised key, and a second
\* get(rangeKey) with the same key returns that same storage and changes nothing:
\* no storage is built, no dict is written
C13_SliceOnce ==
    Sliced
    => LET st == storages[ret.p]
           cache == dicts[st.precomputed_slices]
           slices == slice_to_array(ret.arg)
           again == getitem_slice(ret.p, ret.arg)
       IN  /\ slices \in DOMAIN cache
           /\ Some(cache[slices]) = ret.res.val
           /\ again.res = ret.res
           /\ again.storages = storages
           /\ again.arrays = arrays
           /\ again.dicts = dicts

\* two vectors have been sliced to all but their last entry: the storage returned
\* is not the sliced one and holds the two shorter vectors
C13_Witness ==
    /\ Sliced
    /\ ret.arg = <<ItemSize - 1>>
    /\ ret.res.val # Some(ret.p)
    /\ arrays[storages[ret.p].content].shape = <<2>>
    /\ \A i \in 1..2 :
           /\ arrays[storages[ret.res.val[1]].content].data[i] # None
           /\ arrays[storages[ret.res.val[1]].content].data[i][1].shape = <<ItemSize - 1>>
           /\ arrays[storages[ret.res.val[1]].content].data[i][1].kind = "vector"

\* C14: on an owning storage every set that completes leaves no cached matrix, and
\* as_matrix() returns, and keeps as the cached matrix, the matrix over the array
\* that is the content at the time of the call, without writing into it
C14_MatrixFollowsContent ==
    [][\A id \in DOMAIN storages \cap Names :
           ~storages[id].recursive
           => /\ (ret'.op = "setitem" /\ ret'.p = id /\ ret'.res.ok)
                  => storages'[id].content_as_matrix = None
              /\ (ret'.op = "as_matrix" /\ ret'.p = id)
                  => /\ ret'.res = Ok(Some(storages[id].content))
                     /\ storages'[id].content_as_matrix = ret'.res.val
                     /\ storages'[id].content = storages[id].content
                     /\ arrays' = arrays]_vars

\* as_matrix() has returned the matrix over the two written slots of an owning
\* storage
C14_Witness ==
    /\ ret.op = "as_matrix"
    /\ ~storages[ret.p].recursive
    /\ ret.res = Ok(Some(storages[ret.p].content))
    /\ arrays[ret.res.val[1]].shape = <<2>>
    /\ FullyPopulated(arrays[ret.res.val[1]])

\* C15: set, save and load on a view raise AssertionError and leave every storage,
\* the view and the one it was constructed from, every array, every dict of
\* precomputed slices and the files as they are
C15_ViewIsReadOnly ==
    [][\A id \in DOMAIN storages \cap Names :
           (storages[id].recursive /\ ret'.p = id
               /\ ret'.op \in {"setitem", "save", "load"})
           => /\ ret'.res = Raise("AssertionError")
              /\ UNCHANGED <<storages, arrays, dicts, disk>>]_vars

\* a set on a view of a storage with a written slot has been refused
C15_Witness ==
    /\ ret.op = "setitem"
    /\ storages[ret.p].recursive
    /\ ret.res = Raise("AssertionError")
    /\ HasContent(1)
    /\ storages[ret.p].content = storages[1].content

\* C16: a view, constructed from the storage bound to the name 1, has the content
\* array, the three component maps and the dict of precomputed slices of that
\* storage, and get(index) and as_matrix() through the view give what they give
\* through that storage, whatever set and get(rangeKey) were called since
C16_ViewAliasesOwner ==
    \A view \in DOMAIN storages \cap Names :
        storages[view].recursive
        => /\ storages[view].content = storages[1].content
           /\ storages[view].maps = storages[1].maps
           /\ storages[view].precomputed_slices = storages[1].precomputed_slices
           /\ as_matrix(view).res = as_matrix(1).res
           /\ \A key \in KeysOf(arrays[storages[1].content].shape) :
                  getitem(view, key) = getitem(1, key)

\* the kind of value of a slot, a function counting as its vector
KindOf(slot) == vector(slot[1]).kind

\* C17: no storage holds slots of two different kinds, and a set that completes
\* has written a value of the kind of the slots written before it
C17_OneKindPerStorage ==
    /\ \A id \in DOMAIN storages :
           \A i, j \in DOMAIN arrays[storages[id].content].data :
               LET data == arrays[storages[id].content].data
               IN  (data[i] # None /\ data[j] # None) => KindOf(data[i]) = KindOf(data[j])
    /\ (ret.op = "setitem" /\ ret.res.ok)
       => \A i \in DOMAIN arrays[storages[ret.p].content].data :
              LET data == arrays[storages[ret.p].content].data
              IN  data[i] # None => KindOf(data[i]) = KindOf(Some(ret.arg[2]))

\* the component maps an item carries, None for the maps it does not carry
MapsOf(item) ==
    [name \in MapNameSet |->
        IF HasAttr(vector(item), name) THEN Some(vector(item).attrs[name]) ELSE None]

\* C18: the three component maps of a storage are all None or all set, and every
\* written slot carries the maps of the storage: none when they are None, the same
\* three when they are set
C18_MapsAgree ==
    \A id \in DOMAIN storages :
        /\ \/ \A name \in MapNameSet : storages[id].maps[name] = None
           \/ \A name \in MapNameSet : storages[id].maps[name] # None
        /\ \A i \in DOMAIN arrays[storages[id].content].data :
               LET slot == arrays[storages[id].content].data[i]
               IN  slot # None => MapsOf(slot[1]) = storages[id].maps

\* the order and the size along each dimension of the content of a storage
ShapeOf(id) == arrays[storages[id].content].shape

\* C19: the shape of the content of a storage is the one it was constructed with:
\* no call that completes on the storage changes it, a load from the files of a
\* storage of another shape included
C19_ShapeIsFixed ==
    [][\A id \in DOMAIN storages :
           (ret'.op # "AffineExpansionStorage" /\ ret'.res.ok)
           => ShapeOf(id)' = ShapeOf(id)]_vars

\* the slot at key, or a slot after it, is written
WrittenFrom(id, key) ==
    \E i \in DOMAIN arrays[storages[id].content].data :
        /\ i >= Offset(ShapeOf(id), key)
        /\ arrays[storages[id].content].data[i] # None

\* C20: on an owning storage a set on a slot that is written, or on an index
\* smaller than one that is written, does not take effect: every slot is written
\* at most once and in increasing order
C20_WriteOnceInOrder ==
    [][\A id \in DOMAIN storages :
           (ret'.op = "setitem" /\ ret'.p = id /\ ~storages[id].recursive
               /\ WrittenFrom(id, ret'.arg[1]))
           => UNCHANGED <<storages, arrays, dicts>>]_vars

\* a non-negative int
IsSize(arg) == arg.type = "int" /\ arg.int >= 0
\* one size, a pair of sizes, or a storage alone
SizesOrStorage(arg1, arg2) ==
    \/ IsSize(arg1) /\ arg2.type = "None"
    \/ IsSize(arg1) /\ IsSize(arg2)
    \/ arg1.type = "storage" /\ arg2.type = "None"
\* a tuple of matrices or vectors alone, of which those that follow one with
\* component maps carry the same maps
Operators(arg1, arg2) ==
    /\ arg1.type = "tuple"
    /\ arg2.type = "None"
    /\ \A i \in DOMAIN arg1.items : arg1.items[i].kind \in {"matrix", "vector"}
    /\ \A i \in DOMAIN arg1.items, j \in DOMAIN arg1.items :
           (i < j /\ HasAttr(arg1.items[i], NameToIndex))
           => /\ HasAttr(arg1.items[j], NameToIndex)
              /\ MapsOf(arg1.items[j]) = MapsOf(arg1.items[i])
\* the shape the arguments ask for
ShapeAskedFor(arg1, arg2) ==
    IF arg1.type = "storage" THEN ShapeOf(arg1.name)
    ELSE IF arg1.type = "tuple" THEN <<Len(arg1.items)>>
    ELSE IF arg2.type = "None" THEN <<arg1.int>>
    ELSE <<arg1.int, arg2.int>>

\* C21: a construction completes exactly for one non-negative int, for a pair of
\* non-negative ints, for a storage alone, and for a tuple of matrices or vectors
\* with agreeing component maps alone; it then binds a storage of the shape asked
\* for, a view if the argument is a storage; every other construction raises and
\* binds no storage
C21_Construction ==
    [][ret'.op = "init" =>
           LET arg1 == ret'.arg[1]
               arg2 == ret'.arg[2]
           IN  /\ ret'.res.ok = (SizesOrStorage(arg1, arg2) \/ Operators(arg1, arg2))
               /\ ret'.res.ok =>
                      /\ ret'.p \in DOMAIN storages'
                      /\ arrays'[storages'[ret'.p].content].shape = ShapeAskedFor(arg1, arg2)
                      /\ storages'[ret'.p].recursive = (arg1.type = "storage")
               /\ ~ret'.res.ok => UNCHANGED <<storages, arrays, dicts>>]_vars
\* a storage together with a second size has been refused
C21_Witness ==
    /\ ret.op = "init"
    /\ ret.arg[1].type = "storage"
    /\ ret.arg[2].type = "int"
    /\ ~ret.res.ok
    /\ ret.p \notin DOMAIN storages
\* C21 as stated: a construction completes only for one non-negative int, a pair
\* of non-negative ints or a storage alone, and every other one raises and binds
\* no storage
C21_OnlySizesOrStorage ==
    [][ret'.op = "init" =>
           /\ ret'.res.ok = SizesOrStorage(ret'.arg[1], ret'.arg[2])
           /\ ~ret'.res.ok => UNCHANGED <<storages, arrays, dicts>>]_vars

\* C22: get(rangeKey) returns a storage only from a storage of which every slot
\* holds a matrix, a vector or a function, and all slots the same kind; with a
\* slot that is None or holds a float, or with slots of two kinds, it raises
C22_SlicingChecksSlots ==
    Sliced
    => LET data == arrays[storages[ret.p].content].data
       IN  /\ \A i \in DOMAIN data : Sliceable(data[i])
           /\ \A i, j \in DOMAIN data : data[i][1].kind = data[j][1].kind

\* C23: iterate() on a storage of any shape, size 0 included, completes and has
\* yielded the slot at every multi-index once, in row-major order of the
\* multi-indices, whenever it is called
C23_IterateAll ==
    (ret.op = "iter" /\ ret.p \in DOMAIN storages)
    => LET shape == ShapeOf(ret.p)
       IN  /\ ret.res.ok
           /\ Len(ret.res.val) = Size(shape)
           /\ \A i \in 0..(shape[1] - 1) :
                  IF Len(shape) = 1
                  THEN ret.res.val[i + 1] = getitem(ret.p, <<i>>).val
                  ELSE \A j \in 0..(shape[2] - 1) :
                           ret.res.val[i * shape[2] + j + 1] = getitem(ret.p, <<i, j>>).val

\* the files save writes: the content, the three maps, the type and the size
PersistedFiles ==
    {"content", "content_type", "content_size"} \cup {MapFiles[i] : i \in 1..Len(MapFiles)}

\* C24: load on an owning storage whose slots are all None, called while one of
\* the persisted files is missing, raises the assertion on the existence of a
\* file: it returns neither True nor False and fails with no other error
C24_MissingFileNotFound ==
    [][\A id \in DOMAIN storages :
           (ret'.op = "load" /\ ret'.p = id /\ ~storages[id].recursive
               /\ ~HasContent(id) /\ ~(PersistedFiles \subseteq DOMAIN disk))
           => ret'.res = Raise("AssertionError")]_vars

\* the last index of a shape: Q - 1, or (Q1 - 1, Q2 - 1)
LastIndex(shape) == [d \in DOMAIN shape |-> shape[d] - 1]

\* C27: a set of a matrix or vector that completes at the last index of the
\* storage leaves a slice cache of exactly one entry, from the full index range of
\* the item to the storage itself; at any other index it leaves the slice cache
\* as it was
C27_TrivialSliceAtLastIndex ==
    [][\A id \in DOMAIN storages :
           (ret'.op = "setitem" /\ ret'.p = id /\ ret'.res.ok
               /\ ret'.arg[2].kind \in {"matrix", "vector"})
           => IF ret'.arg[1] = LastIndex(ShapeOf(id))
              THEN dicts'[storages'[id].precomputed_slices]
                       = ([d \in DOMAIN ret'.arg[2].shape |-> Range(ret'.arg[2].shape[d])]
                              :> id)
              ELSE /\ storages'[id].precomputed_slices = storages[id].precomputed_slices
                   /\ dicts'[storages'[id].precomputed_slices]
                          = dicts[storages[id].precomputed_slices]]_vars

\* C28: when load has returned True on files of content type matrix, vector or
\* function, the as-matrix cache of the storage is the matrix over the loaded
\* content, its slice cache holds the one entry from the full index range of the
\* first slot to the storage, and get(rangeKey) over that range returns the
\* storage itself
C28_LoadPreparesCaches ==
    (ret.op = "load" /\ ret.res = Ok(Some(TRUE)) /\ ret.p \in DOMAIN storages
        /\ disk["content_type"] \in {"matrix", "vector", "function"})
    => LET st == storages[ret.p]
           first == arrays[st.content].data[1][1]
       IN  /\ st.content_as_matrix = Some(st.content)
           /\ dicts[st.precomputed_slices]
                  = ([d \in DOMAIN first.shape |-> Range(first.shape[d])] :> ret.p)
           /\ getitem_slice(ret.p, first.shape).res = Ok(Some(ret.p))

\* C30: after a save of a storage with a written slot and a slot that is None,
\* wherever the None is, load into a storage of the same shape whose slots are all
\* None returns True, and every slot holds what the saved slot held: the same
\* kind, values and shape, or None
C30_PartialRoundTrip ==
    [][\A id \in DOMAIN storages :
           (ret'.op = "load" /\ ret'.p = id /\ IsFresh(id) /\ saved # None
               /\ saved[1].content.shape = ShapeOf(id)
               /\ \E i, j \in DOMAIN saved[1].content.data :
                      saved[1].content.data[i] = None /\ saved[1].content.data[j] # None)
           => /\ ret'.res = Ok(Some(TRUE))
              /\ ContentOf(arrays'[storages'[id].content]) = ContentOf(saved[1].content)]_vars

Sequential(op, key) ==
    IF op = "getitem" THEN getitem(1, key)
    ELSE IF op = "as_matrix" THEN Ok(Some(arrays[as_matrix(1).res.val[1]]))
    ELSE LET world == getitem_slice(1, key)
         IN  IF world.res.ok
             THEN Ok(Some(ValueOf(world.storages, world.arrays, world.res.val[1])))
             ELSE world.res

\* every call that has returned has returned what it returns when it runs alone
ReturnsAgree ==
    \A r \in DOMAIN readers :
        (readers[r].pc = "idle" /\ readers[r].op # "none")
        => readers[r].res = Sequential(readers[r].op, readers[r].key)

\* C25: once the writer has handed the populated storage to the readers, no
\* step of a reader changes the content array, whatever the interleaving of their
\* get(index), get(rangeKey) and as_matrix() calls, and every call that returns
\* has returned a value equal to the one the call returns when it runs alone
C25_ReadersAgree ==
    [][readers # <<>> =>
           /\ storages'[1].content = storages[1].content
           /\ arrays'[storages'[1].content] = arrays[storages[1].content]
           /\ ReturnsAgree']_vars
\* a reader has returned the storage it built and stored for a range key while
\* the other, which missed the same key, has built its own and is about to store
\* it in its place
C25_Witness ==
    /\ readers # <<>>
    /\ readers[1].pc = "slice_store"
    /\ readers[2].pc = "idle" /\ readers[2].op = "getitem_slice" /\ readers[2].res.ok
    /\ readers[1].key = <<ItemSize - 1>>
    /\ readers[2].key = readers[1].key
    /\ slice_to_array(readers[1].key) \in DOMAIN dicts[storages[1].precomputed_slices]
    /\ readers[2].res.val[1].content.shape = <<2>>
    /\ storages[1].content_as_matrix # None
(***************************************************************************)
(* The stages of the decorator and the two passes.                         *)
(***************************************************************************)
\* the branch assemble_operator takes (lines 148-154)
assemble_operator_path(p, term) ==
    IF term \in DOMAIN separated_forms[p]
    THEN IF InStages("offline", p) THEN "EIM" ELSE "original"
    ELSE "original"

\* faulty variant of compute_theta_path: the stages are not looked at
compute_theta_path_any_stage(p, term) ==
    IF term \in DOMAIN separated_forms[p] THEN "EIM" ELSE "original"

\* the branch compute_theta takes (lines 175-181)
compute_theta_path(p, term) ==
    IF term \in DOMAIN separated_forms[p]
    THEN IF InStages("offline", p) THEN "EIM" ELSE "original"
    ELSE "original"

\* C31: for every accepted stages configuration and every term, assemble_operator
\* takes the EIM branch exactly when compute_theta does, which is exactly when the
\* term is registered and "offline" is among the stages; each returns the result of
\* the branch, so for one term both results are expanded or both are original.
C31_SamePath ==
    /\ \A p \in Problems, term \in CallTerms :
           /\ assemble_operator_path(p, term) = compute_theta_path(p, term)
           /\ assemble_operator_path(p, term) = "EIM"
                  <=> (term \in DOMAIN separated_forms[p] /\ InStages("offline", p))
           /\ assemble_operator(p, term)
                  = IF assemble_operator_path(p, term) = "EIM"
                    THEN assemble_operator_EIM(p, term)
                    ELSE ParentAssembleOperator(term)
           /\ compute_theta(p, term)
                  = IF compute_theta_path(p, term) = "EIM"
                    THEN compute_theta_EIM(p, term)
                    ELSE ParentComputeTheta(p, term)
    /\ IsCall("assemble_operator") => ret.res = assemble_operator(ret.p, ret.arg)
    /\ IsCall("compute_theta") => ret.res = compute_theta(ret.p, ret.arg)

\* C31 witness: the thetas of a registered term are asked of a problem decorated
\* for the online stage only, and are the original ones
C31_Witness ==
    /\ IsCall("compute_theta")
    /\ ret.arg \in DOMAIN separated_forms[ret.p]
    /\ stages[ret.p] = <<"online">>
    /\ ret.res.ok
    /\ ret.res = ParentComputeTheta(ret.p, ret.arg)
    /\ assemble_operator(ret.p, ret.arg) = ParentAssembleOperator(ret.arg)

\* the decorator argument asks for the offline stage and for no other
OfflineOnly(arg) ==
    IF arg.isstr THEN arg.str = "offline" ELSE arg.tuple = <<"offline">>

\* the configurations the claim has accepted
AcceptedStages ==
    {StrStages("online"), TupleStages(<<"online">>),
     TupleStages(<<"offline", "online">>), TupleStages(<<"online", "offline">>)}

\* C32: the construction of a problem fails for a stages argument that holds only
\* the offline stage, given as the string or as the one-element tuple, and completes
\* exactly for "online", ("online",), ("offline", "online") and ("online", "offline").
C32_OfflineOnlyRejected ==
    IsCall("__init__") =>
        /\ OfflineOnly(ret.arg) => ~ret.res.ok
        /\ ret.res.ok <=> ret.arg \in AcceptedStages

\* C33 (as claimed): every call of _init_EIM_approximations passes its entry
\* assertion; on a problem with both maps empty it leaves separated_forms and
\* EIM_approximations as the loops fill them, and on any other problem it leaves
\* both maps as they were, also when no term has a parametrized coefficient.
C33_InitRepeatable ==
    [][\A p \in Problems :
           (ret'.op = "init" /\ ret'.p = p) =>
               /\ ret'.res.ok
               /\ IF separated_forms[p] = <<>> /\ EIM_approximations[p] = <<>>
                  THEN /\ separated_forms'[p] = SeparateForms
                       /\ EIM_approximations'[p] = RegisterFactors(p, <<>>, Occurrences)
                  ELSE /\ separated_forms'[p] = separated_forms[p]
                       /\ EIM_approximations'[p] = EIM_approximations[p]]_vars

ExpectedTable(p, kwargs) ==
    IF kwargs.EIM = None THEN None
    ELSE Some([term \in DOMAIN separated_forms[p] |->
                 IF kwargs.EIM[1].isdict
                 THEN kwargs.EIM[1].d[term]
                 ELSE [q \in 1..Len(separated_forms[p][term]) |-> kwargs.EIM[1].n]])

\* C35 (as claimed): whatever _init_EIM_approximations and _solve calls were made,
\* _N_EIM is the table derived from the keywords of the most recent _solve over the
\* terms registered now (None without a _solve or without the EIM keyword, else one
\* entry per registered term with one order per form), so compute_theta of a
\* registered term never fails the assertions on the table.
C35_TableOfLastSolve ==
    /\ IsCall("solve") => previous_kwargs[ret.p] = Some(ret.arg)
    /\ \A p \in Problems :
           IF previous_kwargs[p] = None \/ previous_kwargs[p][1].EIM = None
           THEN N_EIM[p] = None
           ELSE /\ N_EIM[p] # None
                /\ DOMAIN N_EIM[p][1] = DOMAIN separated_forms[p]
                /\ \A term \in DOMAIN separated_forms[p] :
                       N_EIM[p][1][term] = ExpectedTable(p, previous_kwargs[p][1])[1][term]
    /\ (IsCall("compute_theta") /\ EIMBranch) => ret.res # Raise("AssertionError")

\* every slot of the storage holds a matrix or a vector
AllOperators(id) ==
    \A i \in DOMAIN arrays[storages[id].content].data :
        /\ arrays[storages[id].content].data[i] # None
        /\ arrays[storages[id].content].data[i][1].kind \in {"matrix", "vector"}

\* C36 (as claimed): the storage that get(rangeKey) has returned from an owning
\* storage of matrices or vectors has the shape of the storage and holds, at every
\* multi-index, the requested sub-range of the slot that the storage holds there now,
\* whatever sets and slicings came before.
C36_SliceIsCurrent ==
    (IsCall("getitem_slice") /\ ret.res.ok
     /\ ~storages[ret.p].recursive /\ AllOperators(ret.p)) =>
        LET original == arrays[storages[ret.p].content]
            sliced == arrays[storages[ret.res.val[1]].content]
        IN  /\ sliced.shape = original.shape
            /\ \A i \in DOMAIN original.data :
                   /\ sliced.data[i] # None
                   /\ sliced.data[i][1].kind = original.data[i][1].kind
                   /\ sliced.data[i][1].val = original.data[i][1].val
                   /\ sliced.data[i][1].shape = ret.arg

\* C37 (as claimed): a set on an owning storage that is rejected, for an item of
\* an unsupported type or for component maps that are absent or different while
\* the maps of the storage are set, leaves the slot at the index, the three maps,
\* the as-matrix cache and the slice cache as they were before the call.
C37_RejectedSetChangesNothing ==
    [][\A id \in DOMAIN storages :
           (ret'.op = "setitem" /\ ret'.p = id /\ ~ret'.res.ok /\ ~storages[id].recursive)
           => /\ storages'[id].content = storages[id].content
              /\ arrays'[storages[id].content].data[Offset(ShapeOf(id), ret'.arg[1])]
                     = arrays[storages[id].content].data[Offset(ShapeOf(id), ret'.arg[1])]
              /\ storages'[id].maps = storages[id].maps
              /\ storages'[id].content_as_matrix = storages[id].content_as_matrix
              /\ storages'[id].precomputed_slices = storages[id].precomputed_slices
              /\ dicts'[storages[id].precomputed_slices]
                     = dicts[storages[id].precomputed_slices]]_vars

\* C38 (as claimed): in every state the _largest_key of an owning storage is the
\* last index of its current content, Q-1 or (Q1-1, Q2-1), after construction and
\* after every load.
C38_LargestKeyIsLastIndex ==
    \A id \in DOMAIN storages :
        ~storages[id].recursive => storages[id].largest_key = LastIndex(ShapeOf(id))

(***************************************************************************)
(* The snapshots of the online rectification.                              *)
(***************************************************************************)
\* the keywords other than "online_rectification" of a reduced problem
OtherKeys(R) == DOMAIN R.defaults \ {Rectify}
\* the slot of the operator "projection_reduced_snapshots" at position q
SnapshotsAt(q) == arrays[storages[1].content].data[q]

\* C39: the list of keyword combinations with rectification and the list without
\* are as long as each other and hold every combination of the other keywords
\* once; the combinations at one position differ in the rectification flag only;
\* the operator has one slot for each of them, the slot at position q holding the
\* snapshots solved with the combination without rectification at position q; and
\* a rectified solve reads the slot whose snapshots were solved with its own other
\* keywords and the rectification off.
C39_RectificationPairsSlots ==
    rectification # None =>
        LET R == Rectification
            with == R.online_solve_kwargs_with_rectification
            without == R.online_solve_kwargs_without_rectification
            online_solve_kwargs == OnlineSolveKwargs(R.keys, R.defaults, <<>>, ret.arg)
        IN  /\ Len(with) = Len(without)
            /\ \A c \in [OtherKeys(R) -> BOOLEAN] :
                   Cardinality({q \in 1..Len(with) :
                                   \A k \in OtherKeys(R) : with[q][k] = c[k]}) = 1
            /\ \A q \in 1..Len(with) :
                   /\ with[q][Rectify]
                   /\ ~without[q][Rectify]
                   /\ \A k \in OtherKeys(R) : with[q][k] = without[q][k]
            /\ R.pc \in {"offline", "assembled", "online"} =>
                   arrays[storages[1].content].shape = <<Len(with)>>
            /\ IsLoaded(R.pc) =>
                   \A q \in 1..Len(with) :
                       /\ SnapshotsAt(q) # None
                       /\ SnapshotsAt(q)[1].val = ReducedSolve(R.keys, without[q])
            /\ IsCall("_solve") =>
                   /\ ret.res.ok
                   /\ ret.res.val.q # 0 <=>
                          R.training_finished /\ online_solve_kwargs[Rectify]
                   /\ ret.res.val.q # 0 =>
                          /\ with[ret.res.val.q] = online_solve_kwargs
                          /\ ret.res.val.snapshots = SnapshotsAt(ret.res.val.q)
                          /\ ret.res.val.snapshots[1].val =
                                 ReducedSolve(R.keys,
                                     [online_solve_kwargs EXCEPT ![Rectify] = FALSE])

\* a rectified solve after the operator was loaded from the file read a slot other
\* than the first of four
C39_Witness ==
    /\ rectification # None
    /\ Rectification.pc = "online"
    /\ Len(Rectification.online_solve_kwargs_with_rectification) = 4
    /\ IsCall("_solve")
    /\ ret.res.ok
    /\ ret.res.val.q = 3
    /\ ret.res.val.snapshots # None
    /\ ret.res.val.snapshots[1].val = ret.res.val.solution
====
